---------------------------- MODULE Spec2Model ----------------------------
(***************************************************************************)
(* Prompt-to-chart pipeline of vega-auto-viz: SQL guard, query executor,   *)
(* schema cache, chart spec composer and the request handler that chains   *)
(* them.                                                                   *)
(*                                                                         *)
(* SQL text is a sequence of lexemes.  A lexeme is a keyword, an           *)
(* identifier, a whitespace character or a punctuation character; two      *)
(* adjacent non-whitespace lexemes are glued into one word, as in          *)
(* "SELECTDROP".  No keyword of the guard's patterns is a substring of a   *)
(* concatenation of other lexemes, so a regular expression of the guard    *)
(* matches the text iff it matches lexeme by lexeme.                       *)
(***************************************************************************)
EXTENDS Integers, Sequences, FiniteSets, TLC

Null == "null"

(***************************************************************************)
(* Bounds                                                                  *)
(***************************************************************************)
MaxFrags == 3

\* longest driver result enumerated row by row
MaxResultLen == 3

\* clock steps and introspections of one behaviour of the schema cache
MaxTicks == 2

MaxIntrospections == 2

\* the calls of generateChart and of retry() the hook is followed through
MaxHookCalls == 3

MaxRetries == 2

\* constants.js: MAX_RECENT_PROMPTS
MAX_RECENT_PROMPTS == 10

(***************************************************************************)
(* Lexemes of SQL text                                                     *)
(***************************************************************************)
SpaceLexemes == {" ", "\n"}

PunctLexemes == {"*", ";"}

WordLexemes ==
  {"SELECT", "select", "DROP", "drop", "TABLE", "DATABASE", "DELETE", "FROM",
   "from", "WHERE", "TRUNCATE", "ALTER", "CREATE", "JOIN", "UPDATE",
   "sales", "ghost_table"}

\* String.prototype.toUpperCase on a lexeme (the /i flag of the patterns)
ToUpper(l) ==
  CASE l = "select" -> "SELECT"
    [] l = "drop"   -> "DROP"
    [] l = "from"   -> "FROM"
    [] OTHER        -> l

\* \s
IsSpace(l) == l \in SpaceLexemes

\* \w
IsWord(l) == l \in WordLexemes

\* index of the first lexeme at or after i that is not whitespace (\s* from i)
RECURSIVE SkipSpaces(_, _)
SkipSpaces(s, i) ==
  IF i <= Len(s) /\ IsSpace(s[i]) THEN SkipSpaces(s, i + 1) ELSE i

\* index just after the run of word lexemes that starts at i (\w+ is greedy)
RECURSIVE SkipWord(_, _)
SkipWord(s, i) ==
  IF i <= Len(s) /\ IsWord(s[i]) THEN SkipWord(s, i + 1) ELSE i

\* /K1\s+K2/i matched with K1 at lexeme i
MatchKwSpaceKwAt(s, i, k1, k2) ==
  /\ ToUpper(s[i]) = k1
  /\ i + 1 <= Len(s)
  /\ IsSpace(s[i + 1])
  /\ LET j == SkipSpaces(s, i + 1)
     IN  j <= Len(s) /\ ToUpper(s[j]) = k2

\* does "." (any character but a line terminator) cover lexemes i..j
RECURSIVE NoNewline(_, _, _)
NoNewline(s, i, j) ==
  IF i > j THEN TRUE
  ELSE IF s[i] = "\n" THEN FALSE
  ELSE NoNewline(s, i + 1, j)

\* /DELETE\s+FROM.*WHERE/i matched with DELETE at lexeme i
MatchDeleteFromWhereAt(s, i) ==
  /\ MatchKwSpaceKwAt(s, i, "DELETE", "FROM")
  /\ LET f == SkipSpaces(s, i + 1)
     IN  \E k \in (f + 1)..Len(s) :
           ToUpper(s[k]) = "WHERE" /\ NoNewline(s, f + 1, k - 1)

\* the six patterns of dangerousPatterns, in array order
dangerousPatterns ==
  << "/DROP\\s+TABLE/i", "/DROP\\s+DATABASE/i", "/DELETE\\s+FROM.*WHERE/i",
     "/TRUNCATE/i", "/ALTER\\s+TABLE/i", "/CREATE\\s+TABLE/i" >>

\* the patterns as if anchored at the start of the text
PatternTestAnchored(p, s) ==
  /\ Len(s) >= 1
  /\ CASE p = 1 -> MatchKwSpaceKwAt(s, 1, "DROP", "TABLE")
       [] p = 2 -> MatchKwSpaceKwAt(s, 1, "DROP", "DATABASE")
       [] p = 3 -> MatchDeleteFromWhereAt(s, 1)
       [] p = 4 -> ToUpper(s[1]) = "TRUNCATE"
       [] p = 5 -> MatchKwSpaceKwAt(s, 1, "ALTER", "TABLE")
       [] p = 6 -> MatchKwSpaceKwAt(s, 1, "CREATE", "TABLE")

\* pattern.test(sqlQuery) for the p-th pattern
PatternTest(p, s) ==
  \E i \in 1..Len(s) :
    CASE p = 1 -> MatchKwSpaceKwAt(s, i, "DROP", "TABLE")
      [] p = 2 -> MatchKwSpaceKwAt(s, i, "DROP", "DATABASE")
      [] p = 3 -> MatchDeleteFromWhereAt(s, i)
      [] p = 4 -> ToUpper(s[i]) = "TRUNCATE"
      [] p = 5 -> MatchKwSpaceKwAt(s, i, "ALTER", "TABLE")
      [] p = 6 -> MatchKwSpaceKwAt(s, i, "CREATE", "TABLE")

\* the test without the /i flag
StartsWithSelectCaseSensitive(s) ==
  LET j == SkipSpaces(s, 1)
  IN  j <= Len(s) /\ s[j] = "SELECT"

\* /^\s*SELECT/i.test(sqlQuery)
StartsWithSelect(s) ==
  LET j == SkipSpaces(s, 1)
  IN  j <= Len(s) /\ ToUpper(s[j]) = "SELECT"

\* /FROM\s+(\w+)|JOIN\s+(\w+)/gi matched at lexeme i: the keyword, \s+, \w+
TableMatchAt(s, i) ==
  /\ ToUpper(s[i]) \in {"FROM", "JOIN"}
  /\ i + 1 <= Len(s)
  /\ IsSpace(s[i + 1])
  /\ LET j == SkipSpaces(s, i + 1)
     IN  j <= Len(s) /\ IsWord(s[j])

\* [...sqlQuery.matchAll(tablePattern)].map(m => m[1] || m[2]): the matches
\* are found left to right and the search resumes after each match
RECURSIVE ExtractTables(_, _)
ExtractTables(s, i) ==
  IF i > Len(s) THEN << >>
  ELSE IF TableMatchAt(s, i)
       THEN LET j == SkipSpaces(s, i + 1)
                e == SkipWord(s, j)
            IN  << SubSeq(s, j, e - 1) >> \o ExtractTables(s, e)
       ELSE ExtractTables(s, i + 1)

\* a fresh validation object (valid: true, warnings: [], errors: [])
NewValidation == [valid |-> TRUE, warnings |-> << >>, errors |-> << >>]

DangerError(p) == [msg |-> "Dangerous operation detected", pattern |-> dangerousPatterns[p]]

SelectError == [msg |-> "Only SELECT queries are allowed", pattern |-> Null]

TableWarning(t) == [msg |-> "Table not found in schema", table |-> t]

\* dangerousPatterns.forEach(pattern => ...), patterns p..6
RECURSIVE CheckDangerous(_, _, _)
CheckDangerous(v, s, p) ==
  IF p > Len(dangerousPatterns) THEN v
  ELSE IF PatternTest(p, s)
       THEN CheckDangerous([v EXCEPT !.valid = FALSE,
                                     !.errors = Append(@, DangerError(p))], s, p + 1)
       ELSE CheckDangerous(v, s, p + 1)

\* if (!/^\s*SELECT/i.test(sqlQuery)) { ... }
CheckSelect(v, s) ==
  IF ~StartsWithSelect(s)
  THEN [v EXCEPT !.valid = FALSE, !.errors = Append(@, SelectError)]
  ELSE v

\* schema.tables.map(t => t.name)
SchemaTableNames(schema) == { schema.tables[k].name : k \in 1..Len(schema.tables) }

\* the loop as if an unknown table were an error
RECURSIVE CheckTablesStrict(_, _, _)
CheckTablesStrict(v, tables, names) ==
  IF tables = << >> THEN v
  ELSE IF Head(tables) \notin names
       THEN CheckTablesStrict([v EXCEPT !.valid = FALSE,
                                        !.warnings = Append(@, TableWarning(Head(tables)))],
                              Tail(tables), names)
       ELSE CheckTablesStrict(v, Tail(tables), names)

\* tablesInSQL.forEach(table => ...)
RECURSIVE CheckTables(_, _, _)
CheckTables(v, tables, names) ==
  IF tables = << >> THEN v
  ELSE IF Head(tables) \notin names
       THEN CheckTables([v EXCEPT !.warnings = Append(@, TableWarning(Head(tables)))],
                        Tail(tables), names)
       ELSE CheckTables(v, Tail(tables), names)

validateQuery(s, schema) ==
  CheckTables(CheckSelect(CheckDangerous(NewValidation, s, 1), s),
              ExtractTables(s, 1), SchemaTableNames(schema))

(***************************************************************************)
(* Schema descriptions                                                     *)
(***************************************************************************)
\* one entry of schema.tables, as getCompleteSchema pushes it
TableEntry(n) == [name |-> << n >>]

\* the object getCompleteSchema returns; id is the identity of the object
SchemaObject(id, names) ==
  [id |-> id, database |-> "shop", dialect |-> "postgres",
   tables |-> [k \in 1..Len(names) |-> TableEntry(names[k])]]

(***************************************************************************)
(* Query executor                                                          *)
(***************************************************************************)
\* values of a result row: a string, a number or null
Str(x) == [t |-> "string", s |-> x, n |-> 0]

Num(k) == [t |-> "number", s |-> "", n |-> k]

NullValue == [t |-> "null", s |-> "", n |-> 0]

\* the k-th row of a driver result
DriverRow(x, v) == [x |-> x, v |-> v]

SampleRows ==
  { DriverRow(Str("a"), Str("10")),
    DriverRow(Str("b"), Num(20)),
    DriverRow(Str("2024-01"), NullValue) }

\* a result of n generated rows, each told apart by its number
GeneratedResult(n) == [k \in 1..n |-> DriverRow(Str("a"), Num(k))]

\* the default of the maxRows option
DefaultMaxRows == 10000

\* the default of the timeout option
DefaultTimeout == 30000

\* options.maxRows as the caller passes it: a number, or left undefined
Given(k) == [given |-> TRUE, value |-> k]

Undefined == [given |-> FALSE, value |-> 0]

\* const { maxRows = 10000 } = options
MaxRowsOption(o) == IF o.given THEN o.value ELSE DefaultMaxRows

\* Array.prototype.slice(0, end)
Slice0(a, end) ==
  LET e == IF end < 0 THEN (IF Len(a) + end < 0 THEN 0 ELSE Len(a) + end)
           ELSE (IF end > Len(a) THEN Len(a) ELSE end)
  IN  SubSeq(a, 1, e)

\* the truncation as if the ceiling were exclusive
LimitRowsExclusive(results, maxRows) ==
  IF Len(results) >= maxRows THEN Slice0(results, maxRows - 1) ELSE results

\* if (results.length > maxRows) return results.slice(0, maxRows); return results
LimitRows(results, maxRows) ==
  IF Len(results) > maxRows THEN Slice0(results, maxRows) ELSE results

\* what executeQuery produces from the outcome of sequelize.query
executeQuery(driver, maxRowsOpt) ==
  IF driver.ok
  THEN [ok |-> TRUE, rows |-> LimitRows(driver.rows, MaxRowsOption(maxRowsOpt)),
        error |-> Null]
  ELSE [ok |-> FALSE, rows |-> << >>, error |-> "DatabaseError"]

\* outcomes of sequelize.query: rows, or a rejection
DriverOk(rows) == [ok |-> TRUE, rows |-> rows]

DriverFailed == [ok |-> FALSE, rows |-> << >>]

\* the row sequences of length at most n over SampleRows
RECURSIVE RowSeqs(_)
RowSeqs(n) ==
  IF n = 0 THEN { << >> }
  ELSE LET R == RowSeqs(n - 1) IN R \cup { Append(r, x) : r \in R, x \in SampleRows }

(***************************************************************************)
(* Chart specifications.  JavaScript objects live in a heap, a sequence of *)
(* cells referred to by their index; a chart spec is a "spec" cell whose   *)
(* mark is absent, a string, or a reference to a "mark" cell.              *)
(***************************************************************************)
\* the shapes of the mark field: not there, null, a string, an object
MarkAbsent == [kind |-> "absent", type |-> "", ref |-> 0]

MarkNull == [kind |-> "null", type |-> "", ref |-> 0]

MarkString(t) == [kind |-> "string", type |-> t, ref |-> 0]

MarkObject(r) == [kind |-> "object", type |-> "", ref |-> r]

\* a mark object { type, tooltip }; tooltip is "unset", "true" or "false"
MarkCell(t, tip) == [cell |-> "mark", type |-> t, tooltip |-> tip]

\* a size field: not set, a number, or the string 'container'
SizeUnset == [k |-> "undefined", n |-> 0]

SizeNumber(n) == [k |-> "number", n |-> n]

SizeContainer == [k |-> "container", n |-> 0]

\* the fields of a chart spec object
SpecCell(hasSchema, mark, hasEncoding, hasData, values, width, height, title) ==
  [cell |-> "spec", hasSchema |-> hasSchema, mark |-> mark,
   hasEncoding |-> hasEncoding, hasData |-> hasData, values |-> values,
   width |-> width, height |-> height, autosize |-> "undefined",
   config |-> "undefined", transform |-> << >>, title |-> title]

\* the cells reachable from the spec at reference r
SpecRefs(h, r) ==
  IF r = 0 THEN { }
  ELSE IF h[r].mark.kind = "object" THEN { r, h[r].mark.ref } ELSE { r }

\* a copy by spread, { ...vegaSpec }: the mark object is shared with the input
ShallowClone(h, r) == [heap |-> Append(h, h[r]), ref |-> Len(h) + 1]

\* JSON.parse(JSON.stringify(vegaSpec)): new objects for the spec and its mark
DeepClone(h, r) ==
  IF h[r].mark.kind = "object"
  THEN LET h1 == Append(h, h[h[r].mark.ref])
       IN  [heap |-> Append(h1, [h[r] EXCEPT !.mark = MarkObject(Len(h) + 1)]),
            ref  |-> Len(h) + 2]
  ELSE [heap |-> Append(h, h[r]), ref |-> Len(h) + 1]

\* the option object of enhanceVegaSpec after its defaults
ChartDefaults == [theme |-> "default", responsive |-> FALSE, tooltip |-> TRUE]

ThemeNames == {"dark", "minimal", "professional"}

\* getThemeConfig(theme): themes[theme] || {}
getThemeConfig(theme) == IF theme \in ThemeNames THEN theme ELSE "empty"

\* enhanced.width || 700, enhanced.height || 400
SizeOr(v, d) == IF v.k = "undefined" \/ (v.k = "number" /\ v.n = 0) THEN SizeNumber(d) ELSE v

\* the tooltip step as if it left a shorthand mark as it is
ForceTooltipObjectOnly(h, e) ==
  IF h[e].mark.kind = "object" THEN [h EXCEPT ![h[e].mark.ref].tooltip = "true"] ELSE h

\* the tooltip step of enhanceVegaSpec on the spec at e
ForceTooltip(h, e) ==
  IF h[e].mark.kind \in { "absent", "null" } THEN h
  ELSE IF h[e].mark.kind = "string"
       THEN LET h1 == Append(h, MarkCell(h[e].mark.type, "true"))
            IN  [h1 EXCEPT ![e].mark = MarkObject(Len(h) + 1)]
       ELSE [h EXCEPT ![h[e].mark.ref].tooltip = "true"]

\* enhanceVegaSpec(vegaSpec, data, options): the heap after the call and the
\* reference it returns
enhanceVegaSpec(h, r, data, options) ==
  LET c  == DeepClone(h, r)
      e  == c.ref
      h1 == [c.heap EXCEPT ![e].hasData = TRUE, ![e].values = data]
      h2 == IF options.responsive
            THEN [h1 EXCEPT ![e].width = SizeContainer, ![e].autosize = "fit"]
            ELSE [h1 EXCEPT ![e].width = SizeOr(@, 700)]
      h3 == [h2 EXCEPT ![e].height = SizeOr(@, 400)]
      h4 == IF options.tooltip THEN ForceTooltip(h3, e) ELSE h3
      h5 == IF options.theme # "default"
            THEN [h4 EXCEPT ![e].config = getThemeConfig(options.theme)]
            ELSE h4
  IN  [heap |-> h5, ref |-> e]

\* the size above which optimizeVegaSpec degrades the chart
LargeDataset == 1000

\* optimizeVegaSpec(vegaSpec, dataSize)
optimizeVegaSpec(h, r, dataSize) ==
  LET c  == DeepClone(h, r)
      o  == c.ref
      h1 == IF dataSize > LargeDataset /\ c.heap[o].mark.kind = "object"
            THEN [c.heap EXCEPT ![c.heap[o].mark.ref].tooltip = "false"]
            ELSE c.heap
      h2 == IF dataSize > LargeDataset
            THEN [h1 EXCEPT ![o].transform = Append(@, [sample |-> 1000])]
            ELSE h1
  IN  [heap |-> h2, ref |-> o]

\* the JSON form of the spec at r, as res.json serializes it
Serialize(h, r) ==
  [spec |-> h[r],
   mark |-> IF h[r].mark.kind = "object" THEN h[h[r].mark.ref]
            ELSE MarkCell(h[r].mark.type, "unset")]

\* const validation = { valid: true, errors: [] }
NewVegaValidation == [threw |-> FALSE, valid |-> TRUE, errors |-> << >>]

\* validation.errors.push(msg); validation.valid = false
VegaError(v, msg) == [v EXCEPT !.errors = Append(@, msg), !.valid = FALSE]

\* if (!present) { push(msg); valid = false }
RequireField(v, present, msg) == IF present THEN v ELSE VegaError(v, msg)

\* !vegaSpec.mark is false: the mark is there, not null and not the empty string
MarkTruthy(mk) == mk.kind = "object" \/ (mk.kind = "string" /\ mk.type # "")

\* const validMarks
validMarks == { "bar", "line", "point", "arc", "area", "rect", "rule", "text", "tick" }

\* typeof vegaSpec.mark === 'object' ? vegaSpec.mark.type : vegaSpec.mark, as
\* the text the error message shows; a mark of null makes the read of .type throw
MarkType(h, mk) ==
  IF mk.kind = "object" THEN (IF h[mk.ref].type = "" THEN "undefined" ELSE h[mk.ref].type)
  ELSE IF mk.kind = "string" THEN mk.type
  ELSE "undefined"

\* the mark type test that records the error and leaves valid as it was
CheckMarkTypeErrorOnly(v, markType) ==
  IF markType \notin validMarks
  THEN [v EXCEPT !.errors = Append(@, "Invalid mark type: " \o markType)]
  ELSE v

\* if (!validMarks.includes(markType)) { push(..); valid = false }
CheckMarkType(v, markType) ==
  IF markType \notin validMarks
  THEN VegaError(v, "Invalid mark type: " \o markType)
  ELSE v

\* validateVegaSpec(vegaSpec) on the spec at r: the validation object it
\* returns, or threw = TRUE when it throws a TypeError
validateVegaSpec(h, r) ==
  LET v1 == RequireField(NewVegaValidation, h[r].hasSchema, "Missing $schema field")
      v2 == RequireField(v1, MarkTruthy(h[r].mark), "Missing mark field")
      v3 == RequireField(v2, h[r].hasEncoding, "Missing encoding field")
      v4 == RequireField(v3, h[r].hasData, "Missing data field")
  IN  IF h[r].mark.kind = "null"
      THEN [NewVegaValidation EXCEPT !.threw = TRUE]
      ELSE CheckMarkType(v4, MarkType(h, h[r].mark))

(***************************************************************************)
(* Numeric normalization of result rows                                    *)
(***************************************************************************)
\* String.prototype.trim on the strings that occur in rows
Trim(x) ==
  CASE x = " 7 " -> "7"
    [] x = "  "  -> ""
    [] OTHER     -> x

NaN == [nan |-> TRUE, n |-> 0]

Finite(k) == [nan |-> FALSE, n |-> k]

\* Number(x) on the strings that occur in rows
ToNumber(x) ==
  CASE x = "10"  -> Finite(10)
    [] x = " 7 " -> Finite(7)
    [] x = "7"   -> Finite(7)
    [] x = ""    -> Finite(0)
    [] x = "  "  -> Finite(0)
    [] OTHER     -> NaN

\* typeof value === 'string' && value.trim() !== '' && !isNaN(value)
\*   ? Number(value) : value
NormalizeValue(v) ==
  IF v.t = "string" /\ Trim(v.s) # "" /\ ~ToNumber(v.s).nan
  THEN Num(ToNumber(v.s).n)
  ELSE v

\* data.map(row => ...)
NormalizeRows(data) ==
  [k \in 1..Len(data) |-> [f \in DOMAIN data[k] |-> NormalizeValue(data[k][f])]]

(***************************************************************************)
(* Column metadata of the discovered schema.  Column names are sequences   *)
(* of characters; type names are strings with their case maps tabulated.   *)
(***************************************************************************)
\* the keys of typeMap
TypeMapKeys ==
  { "integer", "int", "smallint", "bigint", "serial", "bigserial", "numeric", "decimal",
    "real", "double precision", "float", "money", "character varying", "varchar", "character", "char",
    "text", "timestamp without time zone", "timestamp with time zone", "timestamp", "datetime", "date",
    "time", "boolean", "bool", "json", "jsonb", "array" }

\* typeMap[t] for a key t
typeMap(t) ==
  CASE t = "integer" -> "INTEGER"
    [] t = "int" -> "INTEGER"
    [] t = "smallint" -> "INTEGER"
    [] t = "bigint" -> "INTEGER"
    [] t = "serial" -> "INTEGER"
    [] t = "bigserial" -> "INTEGER"
    [] t = "numeric" -> "DECIMAL"
    [] t = "decimal" -> "DECIMAL"
    [] t = "real" -> "DECIMAL"
    [] t = "double precision" -> "DECIMAL"
    [] t = "float" -> "DECIMAL"
    [] t = "money" -> "DECIMAL"
    [] t = "character varying" -> "STRING"
    [] t = "varchar" -> "STRING"
    [] t = "character" -> "STRING"
    [] t = "char" -> "STRING"
    [] t = "text" -> "TEXT"
    [] t = "timestamp without time zone" -> "TIMESTAMP"
    [] t = "timestamp with time zone" -> "TIMESTAMP"
    [] t = "timestamp" -> "TIMESTAMP"
    [] t = "datetime" -> "TIMESTAMP"
    [] t = "date" -> "DATE"
    [] t = "time" -> "TIME"
    [] t = "boolean" -> "BOOLEAN"
    [] t = "bool" -> "BOOLEAN"
    [] t = "json" -> "JSON"
    [] t = "jsonb" -> "JSON"
    [] t = "array" -> "ARRAY"

\* String.prototype.toLowerCase on the type names that occur
ToLowerCase(t) ==
  CASE t = "INTEGER"      -> "integer"
    [] t = "Varchar"      -> "varchar"
    [] t = "USER-DEFINED" -> "user-defined"
    [] OTHER              -> t

\* String.prototype.toUpperCase on the type names that occur
ToUpperCase(t) ==
  CASE t = "integer"           -> "INTEGER"
    [] t = "Varchar"           -> "VARCHAR"
    [] t = "character varying" -> "CHARACTER VARYING"
    [] t = "timestamp without time zone" -> "TIMESTAMP WITHOUT TIME ZONE"
    [] t = "boolean"           -> "BOOLEAN"
    [] t = "uuid"              -> "UUID"
    [] t = "tinyint"           -> "TINYINT"
    [] OTHER                   -> t

\* normalizeDataType that keeps an unmapped type as the catalog spells it
normalizeDataTypeKeepCase(dataType) ==
  LET lowerType == ToLowerCase(dataType)
  IN  IF lowerType \in TypeMapKeys THEN typeMap(lowerType) ELSE dataType

\* normalizeDataType(dataType), for a string
normalizeDataType(dataType) ==
  LET lowerType == ToLowerCase(dataType)
  IN  IF lowerType \in TypeMapKeys THEN typeMap(lowerType) ELSE ToUpperCase(dataType)

\* String.prototype.endsWith, startsWith, includes
EndsWith(s, p) == Len(p) <= Len(s) /\ SubSeq(s, Len(s) - Len(p) + 1, Len(s)) = p

StartsWith(s, p) == Len(p) <= Len(s) /\ SubSeq(s, 1, Len(p)) = p

Occurrences(s, p) == { i \in 1..(Len(s) - Len(p) + 1) : SubSeq(s, i, i + Len(p) - 1) = p }

Includes(s, p) == Occurrences(s, p) # { }

\* s.replace(p, ''): the first occurrence of p removed
RemoveFirst(s, p) ==
  IF ~Includes(s, p) THEN s
  ELSE LET i == CHOOSE i \in Occurrences(s, p) : \A j \in Occurrences(s, p) : i <= j
       IN  SubSeq(s, 1, i - 1) \o SubSeq(s, i + Len(p), Len(s))

\* s.replace(/_/g, ' ')
Spaced(s) == [i \in DOMAIN s |-> IF s[i] = "_" THEN " " ELSE s[i]]

\* s.replace(/^(is_|has_)/, '')
StripFlagPrefix(s) ==
  IF StartsWith(s, << "i", "s", "_" >>) THEN SubSeq(s, 4, Len(s))
  ELSE IF StartsWith(s, << "h", "a", "s", "_" >>) THEN SubSeq(s, 5, Len(s))
  ELSE s

\* a description: the template literal `${lead}${body}${tail}`
Description(lead, body, tail) == [lead |-> lead, body |-> body, tail |-> tail]

\* Object.entries(patterns), in insertion order
patterns ==
  << [pattern |-> << "i", "d" >>, description |-> "Unique identifier"],
     [pattern |-> << "_", "i", "d" >>, description |-> "Foreign key reference"],
     [pattern |-> << "n", "a", "m", "e" >>, description |-> "Name field"],
     [pattern |-> << "e", "m", "a", "i", "l" >>, description |-> "Email address"],
     [pattern |-> << "p", "h", "o", "n", "e" >>, description |-> "Phone number"],
     [pattern |-> << "a", "d", "d", "r", "e", "s", "s" >>, description |-> "Physical address"],
     [pattern |-> << "c", "i", "t", "y" >>, description |-> "City name"],
     [pattern |-> << "s", "t", "a", "t", "e" >>, description |-> "State or province"],
     [pattern |-> << "c", "o", "u", "n", "t", "r", "y" >>, description |-> "Country name"],
     [pattern |-> << "z", "i", "p" >>, description |-> "Postal code"],
     [pattern |-> << "p", "o", "s", "t", "a", "l", "_", "c", "o", "d", "e" >>, description |-> "Postal code"],
     [pattern |-> << "d", "a", "t", "e" >>, description |-> "Date value"],
     [pattern |-> << "c", "r", "e", "a", "t", "e", "d", "_", "a", "t" >>, description |-> "Record creation timestamp"],
     [pattern |-> << "u", "p", "d", "a", "t", "e", "d", "_", "a", "t" >>, description |-> "Last update timestamp"],
     [pattern |-> << "d", "e", "l", "e", "t", "e", "d", "_", "a", "t" >>, description |-> "Soft delete timestamp"],
     [pattern |-> << "p", "r", "i", "c", "e" >>, description |-> "Price amount"],
     [pattern |-> << "c", "o", "s", "t" >>, description |-> "Cost amount"],
     [pattern |-> << "a", "m", "o", "u", "n", "t" >>, description |-> "Monetary amount"],
     [pattern |-> << "q", "u", "a", "n", "t", "i", "t", "y" >>, description |-> "Quantity value"],
     [pattern |-> << "s", "t", "a", "t", "u", "s" >>, description |-> "Status indicator"],
     [pattern |-> << "t", "y", "p", "e" >>, description |-> "Type or category"],
     [pattern |-> << "d", "e", "s", "c", "r", "i", "p", "t", "i", "o", "n" >>, description |-> "Descriptive text"],
     [pattern |-> << "n", "o", "t", "e", "s" >>, description |-> "Additional notes"],
     [pattern |-> << "i", "s", "_" >>, description |-> "Boolean flag"],
     [pattern |-> << "h", "a", "s", "_" >>, description |-> "Boolean indicator"] >>

\* the first entry of patterns the name equals or ends with; 0 if none
FirstPattern(columnName) ==
  LET hits == { k \in DOMAIN patterns : columnName = patterns[k].pattern
                                         \/ EndsWith(columnName, patterns[k].pattern) }
  IN  IF hits = { } THEN 0 ELSE CHOOSE k \in hits : \A j \in hits : k <= j

\* the steps of inferColumnDescription after the loop over the patterns
DescriptionByShape(columnName, dataType) ==
  IF Includes(columnName, << "_", "i", "d" >>)
  THEN Description("Foreign key to ", RemoveFirst(columnName, << "_", "i", "d" >>), " table")
  ELSE IF StartsWith(columnName, << "i", "s", "_" >>)
          \/ StartsWith(columnName, << "h", "a", "s", "_" >>)
  THEN Description("Boolean: ", Spaced(StripFlagPrefix(columnName)), "")
  ELSE IF dataType \in { "TIMESTAMP", "DATE" }
  THEN Description("Date/time: ", Spaced(columnName), "")
  ELSE IF dataType = "BOOLEAN"
  THEN Description("Boolean flag: ", Spaced(columnName), "")
  ELSE Description("", Spaced(columnName), "")

\* inferColumnDescription(columnName, dataType), for a name that is a string
inferColumnDescription(columnName, dataType) ==
  IF FirstPattern(columnName) # 0
  THEN Description(patterns[FirstPattern(columnName)].description, << >>, "")
  ELSE DescriptionByShape(columnName, dataType)

\* the dialects getTableColumns has a case for
Dialects == { "postgres", "mysql", "mariadb", "sqlite" }

\* a row of information_schema.columns or of PRAGMA table_info
CatalogColumn(name, type, nullable, comment) ==
  [name |-> name, type |-> type, nullable |-> nullable, comment |-> comment]

\* an element of what getTableColumns returns: the properties name, type,
\* nullable and comment it has or lacks, and the properties column_name and
\* data_type of the 'sqlite' case
TableColumn(has, name, type, nullable, comment, column_name, data_type) ==
  [has |-> has, name |-> name, type |-> type, nullable |-> nullable, comment |-> comment,
   column_name |-> column_name, data_type |-> data_type]

\* getTableColumns: the element made of one catalog row
getTableColumns(d, col) ==
  IF d = "sqlite"
  THEN TableColumn(FALSE, << >>, "", FALSE, "", col.name, col.type)
  ELSE TableColumn(TRUE, col.name, normalizeDataType(col.type), col.nullable, col.comment,
                   << >>, "")

\* a column of schema.tables[..].columns, or the TypeError thrown on the way
NoStoredColumn ==
  [threw |-> FALSE, hasName |-> FALSE, name |-> << >>, hasType |-> FALSE, type |-> "",
   nullable |-> FALSE, description |-> Description("", << >>, "")]

\* getCompleteSchema: columns.map(col => ({ name: col.name, type: col.type,
\* nullable: col.nullable, description: col.comment ||
\* inferColumnDescription(col.name, col.type) })); a name that is undefined
\* makes inferColumnDescription throw at columnName.endsWith
StoreColumn(col) ==
  IF col.has
  THEN [NoStoredColumn EXCEPT
          !.hasName = TRUE, !.name = col.name, !.hasType = TRUE, !.type = col.type,
          !.nullable = col.nullable,
          !.description = IF col.comment # "" THEN Description(col.comment, << >>, "")
                          ELSE inferColumnDescription(col.name, col.type)]
  ELSE [NoStoredColumn EXCEPT !.threw = TRUE]

(***************************************************************************)
(* Summary statistics and alternative chart types                          *)
(***************************************************************************)
\* parseFloat(x) on the strings that occur in rows: the number the longest
\* numeric prefix spells, after leading blanks
ParseFloatText(x) ==
  CASE x = "10"      -> Finite(10)
    [] x = " 7 "     -> Finite(7)
    [] x = "7"       -> Finite(7)
    [] x = "12px"    -> Finite(12)
    [] x = "2024-01" -> Finite(2024)
    [] OTHER         -> NaN

\* parseFloat(value) on a value of a row
parseFloat(v) ==
  IF v.t = "number" THEN Finite(v.n)
  ELSE IF v.t = "string" THEN ParseFloatText(v.s)
  ELSE NaN

\* findNumericColumns(data): the keys of the first row whose value is a
\* number or is read by parseFloat as one
findNumericColumns(data) ==
  IF Len(data) = 0 THEN { }
  ELSE { key \in DOMAIN data[1] :
           data[1][key].t = "number" \/ ~parseFloat(data[1][key]).nan }

\* data.map(row => parseFloat(row[col])).filter(v => !isNaN(v))
ColumnValues(data, col) ==
  LET parsed == [k \in DOMAIN data |-> parseFloat(data[k][col])]
      kept   == SelectSeq(parsed, LAMBDA p : ~p.nan)
  IN  [k \in DOMAIN kept |-> kept[k].n]

\* the sum of values[lo..hi], by halves (addition of integers is associative)
RECURSIVE SumRange(_, _, _)
SumRange(values, lo, hi) ==
  IF lo > hi THEN 0
  ELSE IF lo = hi THEN values[lo]
  ELSE LET mid == (lo + hi) \div 2
       IN  SumRange(values, lo, mid) + SumRange(values, mid + 1, hi)

\* values.reduce((a, b) => a + b, 0)
SumOf(values) == SumRange(values, 1, Len(values))

\* Math.min(...values), Math.max(...values) on a list that is not empty
MathMin(values) ==
  CHOOSE m \in { values[k] : k \in DOMAIN values } : \A k \in DOMAIN values : m <= values[k]

MathMax(values) ==
  CHOOSE m \in { values[k] : k \in DOMAIN values } : \A k \in DOMAIN values : m >= values[k]

\* the quotient a / b of two numbers, kept as the fraction
Quotient(a, b) == [num |-> a, den |-> b]

\* the statistics of a column with the average taken over all rows
ColumnStatisticsOverRows(data, col) ==
  LET values == ColumnValues(data, col)
  IN  [min |-> MathMin(values), max |-> MathMax(values),
       avg |-> Quotient(SumOf(values), Len(data)),
       sum |-> SumOf(values), count |-> Len(values)]

\* summary.statistics[col] = { min, max, avg, sum, count }
ColumnStatistics(data, col) ==
  LET values == ColumnValues(data, col)
  IN  [min |-> MathMin(values), max |-> MathMax(values),
       avg |-> Quotient(SumOf(values), Len(values)),
       sum |-> SumOf(values), count |-> Len(values)]

\* the summary before generateChartSummary is called
NoSummary ==
  [totalRecords |-> 0, message |-> "", chartType |-> "", aggregation |-> "",
   groupBy |-> "", hasStatistics |-> FALSE, statistics |-> << >>]

\* generateChartSummary(data, analysis)
generateChartSummary(data, analysis) ==
  IF Len(data) = 0
  THEN [NoSummary EXCEPT !.message = "No data available"]
  ELSE LET numericColumns == findNumericColumns(data)
       IN  [totalRecords |-> Len(data), message |-> "", chartType |-> analysis.chartType,
            aggregation |-> analysis.aggregation, groupBy |-> analysis.groupBy,
            hasStatistics |-> numericColumns # { },
            statistics |-> IF numericColumns # { }
                           THEN [col \in numericColumns |-> ColumnStatistics(data, col)]
                           ELSE << >>]

\* the keys that one of /date/i, /time/i, /year/i, /month/i, /day/i matches
TimeKeys == { "order_date", "created_at_time", "Year", "weekday", "month" }

\* the strings of rows that one of the patterns matches: /^\d{4}-\d{2}/,
\* /^\d{4}$/, /day/i
TimeTexts == { "2024-01", "2024", "Monday" }

\* detectTimeColumn testing the patterns on the keys only
detectTimeColumnKeysOnly(data) ==
  /\ Len(data) # 0
  /\ \E key \in DOMAIN data[1] : key \in TimeKeys

\* detectTimeColumn(data): a key of the first row, or its string value,
\* matches a time pattern
detectTimeColumn(data) ==
  /\ Len(data) # 0
  /\ \E key \in DOMAIN data[1] :
       \/ key \in TimeKeys
       \/ data[1][key].t = "string" /\ data[1][key].s \in TimeTexts

\* the suggestions suggestAlternativeCharts can push
LineSuggestion ==
  [type |-> "line", reason |-> "Time-series data detected - line chart shows trends better"]

ArcSuggestion ==
  [type |-> "arc", reason |-> "Small number of categories - pie chart shows proportions well"]

PointSuggestion ==
  [type |-> "point", reason |-> "Multiple numeric columns - scatter plot can show correlation"]

\* the row count up to which a pie chart is suggested
PieLimit == 8

\* one if (..) suggestions.push(..) of suggestAlternativeCharts
PushIf(suggestions, test, suggestion) ==
  IF test THEN Append(suggestions, suggestion) ELSE suggestions

\* suggestAlternativeCharts(data, analysis)
suggestAlternativeCharts(data, analysis) ==
  IF Len(data) = 0 THEN << >>
  ELSE LET s1 == PushIf(<< >>, detectTimeColumn(data) /\ analysis.chartType # "line",
                        LineSuggestion)
           s2 == PushIf(s1, Len(data) <= PieLimit /\ analysis.chartType # "arc",
                        ArcSuggestion)
       IN  PushIf(s2, Cardinality(findNumericColumns(data)) >= 2
                        /\ analysis.chartType # "point",
                  PointSuggestion)

(***************************************************************************)
(* Prompt validation and the reply of the text-generation service          *)
(***************************************************************************)
\* a prompt: whether it is a string at all, the length of its trimmed text
\* and whether one of the injection patterns of validatePrompt matches it
Prompt(isString, len, dangerous) ==
  [isString |-> isString, len |-> len, dangerous |-> dangerous]

validatePrompt(prompt) ==
  IF ~prompt.isString THEN [valid |-> FALSE, errors |-> << "Prompt is required and must be a string" >>]
  ELSE IF prompt.len = 0 THEN [valid |-> FALSE, errors |-> << "Prompt cannot be empty" >>]
  ELSE LET e1 == IF prompt.len < 3
                 THEN << "Prompt must be at least 3 characters long" >> ELSE << >>
           e2 == IF prompt.len > 1000
                 THEN << "Prompt must be less than 1000 characters" >> ELSE << >>
           e3 == IF prompt.dangerous
                 THEN << "Potentially dangerous SQL pattern detected" >> ELSE << >>
       IN  [valid |-> e1 \o e2 \o e3 = << >>, errors |-> e1 \o e2 \o e3]

\* a chart spec as it stands in the reply text; a mark in object form is
\* MarkCell, a shorthand mark has tooltip "shorthand", a missing one "absent",
\* a mark of null "null"
SpecText(hasSchema, mark, hasEncoding, hasData, width, height) ==
  [hasSchema |-> hasSchema, mark |-> mark, hasEncoding |-> hasEncoding,
   hasData |-> hasData, width |-> width, height |-> height]

NoSpecText == SpecText(FALSE, MarkCell("", "absent"), FALSE, FALSE, SizeUnset, SizeUnset)

\* the parsed reply: an empty sqlQuery, hasVegaSpec = FALSE and hasAnalysis =
\* FALSE stand for a missing field
Reply(sql, hasVegaSpec, spec, hasAnalysis, chartType) ==
  [sqlQuery |-> sql, hasVegaSpec |-> hasVegaSpec, vegaSpec |-> spec,
   hasAnalysis |-> hasAnalysis,
   analysis |-> [chartType |-> chartType, aggregation |-> "sum", groupBy |-> "x"]]

\* validateAIResponse without its last test, that of vegaSpec.$schema
validateAIResponseWithoutSchemaTest(reply) ==
  IF reply.sqlQuery = << >>
    THEN "AI response missing required field: SQL query (sqlQuery)"
  ELSE IF ~reply.hasVegaSpec
    THEN "AI response missing required field: Vega-Lite specification (vegaSpec)"
  ELSE IF ~reply.hasAnalysis
    THEN "AI response missing required field: Analysis metadata (analysis)"
  ELSE IF ~reply.vegaSpec.hasEncoding
    THEN "Vega-Lite specification missing encoding field"
  ELSE "ok"

\* validateAIResponse(response): the message it throws, or "ok"
validateAIResponse(reply) ==
  IF reply.sqlQuery = << >>
    THEN "AI response missing required field: SQL query (sqlQuery)"
  ELSE IF ~reply.hasVegaSpec
    THEN "AI response missing required field: Vega-Lite specification (vegaSpec)"
  ELSE IF ~reply.hasAnalysis
    THEN "AI response missing required field: Analysis metadata (analysis)"
  ELSE IF ~reply.vegaSpec.hasEncoding
    THEN "Vega-Lite specification missing encoding field"
  ELSE IF ~reply.vegaSpec.hasSchema
    THEN "Vega-Lite specification missing $schema field"
  ELSE "ok"

\* the objects JSON.parse creates for the chart spec of the reply
ParseSpec(h, t) ==
  IF t.mark.tooltip \in { "absent", "null" }
  THEN [heap |-> Append(h, SpecCell(t.hasSchema,
                                    IF t.mark.tooltip = "null" THEN MarkNull ELSE MarkAbsent,
                                    t.hasEncoding, t.hasData, << >>, t.width, t.height, "")),
        ref |-> Len(h) + 1]
  ELSE IF t.mark.tooltip = "shorthand"
  THEN [heap |-> Append(h, SpecCell(t.hasSchema, MarkString(t.mark.type), t.hasEncoding,
                                    t.hasData, << >>, t.width, t.height, "")),
        ref |-> Len(h) + 1]
  ELSE [heap |-> Append(Append(h, t.mark),
                        SpecCell(t.hasSchema, MarkObject(Len(h) + 1), t.hasEncoding,
                                 t.hasData, << >>, t.width, t.height, "")),
        ref |-> Len(h) + 2]

\* the object literal emptySpec of the zero-row branch
EmptySpecCell ==
  SpecCell(TRUE, MarkString("text"), TRUE, TRUE, << >>, SizeUnset, SizeUnset,
           "No data available for this query")

\* if (data.length === 0) with the test dropped
IsEmptyResultNever(data) == FALSE

\* data.length === 0
IsEmptyResult(data) == Len(data) = 0

\* the guard's verdict let through unread
SqlAdmittedAlways(v) == TRUE

\* !sqlValidation.valid is false: the handler goes on to executeQuery
SqlAdmitted(v) == v.valid

\* options.maxRows || 10000
HandlerMaxRows(o) == IF o.given /\ o.value # 0 THEN Given(o.value) ELSE Given(10000)

\* the words getErrorHint looks for that the lower-cased message contains
MessageWords(msg) ==
  CASE msg = "Query execution failed" -> { }
    [] msg = "AI generation failed: Incorrect API key provided" -> {"api key"}
    [] msg = "AI generation failed: Request timed out" -> { }
    [] msg = "AI generation failed: Unexpected token in JSON" -> { }
    [] msg = "AI generation failed: AI response missing required field: SQL query (sqlQuery)"
         -> {"sql"}
    [] msg = "connect ECONNREFUSED" -> { }
    [] OTHER -> { }

getErrorHint(msg) ==
  LET w == MessageWords(msg)
  IN  IF "authentication" \in w \/ "api key" \in w
        THEN "Check your OpenAI API key in .env file"
      ELSE IF "database" \in w \/ "sql" \in w
        THEN "Check your database connection and query syntax"
      ELSE IF "timeout" \in w
        THEN "Query took too long. Try adding filters to reduce data size"
      ELSE IF "table" \in w \/ "column" \in w
        THEN "Referenced table or column may not exist. Check your database schema"
      ELSE "Try rephrasing your prompt or check the server logs for details"

(***************************************************************************)
(* Schema cache                                                            *)
(***************************************************************************)
\* the callers of getCachedSchema that run concurrently
Callers == {"c1", "c2"}

\* the caller that is the request handler generateChartFromPrompt
AllCallers == Callers \cup {"req"}

\* the calls of saveWidget; "w1" is the call the request handler makes
Savers == { "w1", "w2", "w3" }

\* const CACHE_DURATION = 60 * 60 * 1000
CACHE_DURATION == 60 * 60 * 1000

\* the amounts by which the clock advances in one step
TickSteps == {1, CACHE_DURATION - 1}

\* the table lists the database can have
Catalogs == { << "sales" >>, << "sales", "products" >> }

\* the hit test with the boundary age counted as fresh
CacheIsFreshInclusive(cache, cacheTime, now, forceRefresh) ==
  /\ ~forceRefresh
  /\ cache # 0
  /\ cacheTime # 0
  /\ (now - cacheTime) <= CACHE_DURATION

\* !forceRefresh && schemaCache && schemaCacheTime &&
\* (now - schemaCacheTime) < CACHE_DURATION
CacheIsFresh(cache, cacheTime, now, forceRefresh) ==
  /\ ~forceRefresh
  /\ cache # 0
  /\ cacheTime # 0
  /\ (now - cacheTime) < CACHE_DURATION

\* the object literal of getCompleteSchema before the loop
EmptySchemaObject == [database |-> "shop", dialect |-> "postgres", tables |-> << >>]

(***************************************************************************)
(* Inputs of the SQL guard                                                 *)
(***************************************************************************)
Fragments ==
  { << " " >>, << "\n" >>, << "SELECT" >>, << "DROP" >>, << "TABLE" >>,
    << "DELETE" >>, << "FROM" >>, << "WHERE" >>, << "TRUNCATE" >>,
    << "sales" >>, << ";" >>,
    << "select", " ", "*" >>,
    << " ", "from", "\n", "ghost_table" >>,
    << " ", "FROM", " ", "sales" >>,
    << " ", "JOIN", " ", "sales" >>,
    << "DROP", " ", "DATABASE" >>,
    << "drop", " ", " ", "TABLE" >>,
    << "ALTER", " ", "TABLE" >>,
    << "CREATE", "\n", "TABLE" >>,
    << "UPDATE", " ", "sales" >> }

\* the texts made of at most n fragments
RECURSIVE Texts(_)
Texts(n) ==
  IF n = 0 THEN { << >> }
  ELSE LET T == Texts(n - 1) IN T \cup { t \o f : t \in T, f \in Fragments }

\* the chart spec texts validateVegaSpec is checked on
VegaInputs ==
  { SpecText(s, mk, enc, d, SizeUnset, SizeUnset) :
      s \in BOOLEAN, enc \in BOOLEAN, d \in BOOLEAN,
      mk \in { MarkCell("", "absent"), MarkCell("", "null"),
               MarkCell("bar", "shorthand"), MarkCell("pie", "shorthand"),
               MarkCell("", "shorthand"),
               MarkCell("tick", "unset"), MarkCell("pie", "true"), MarkCell("", "false") } }

GuardSchemas == { SchemaObject(0, << "sales", "products" >>), SchemaObject(0, << >>) }

\* gpc: "ready" before the call of validateQuery, "validated" after it
VARIABLES sqlQuery, schema, validation, gpc

\* vegaInput: a chart spec text handed to validateVegaSpec once parsed;
\* vegaValidation: what validateVegaSpec returned; vpc: "ready" before the
\* call of validateVegaSpec, "validated" after it, "idle" where no chart spec
\* is there to be validated
VARIABLES vegaInput, vegaValidation, vpc

vegaVars == << vegaInput, vegaValidation, vpc >>

guardVars == << sqlQuery, schema, validation, gpc, vegaVars >>

\* driver: the outcome of sequelize.query; maxRowsOpt: options.maxRows;
\* execResult: what executeQuery returned or threw; epc: "ready" or "executed"
VARIABLES driver, maxRowsOpt, execResult, epc

execVars == << driver, maxRowsOpt, execResult, epc >>

\* The schema cache.  Objects built by getCompleteSchema live in schemaObjs and
\* are referred to by their index; reference 0 is null.
\*   schemaCache, schemaCacheTime  the two module-level variables (0 is null)
\*   clock       Date.now()
\*   catalog     the tables the database has at present
\*   cpc[c]      where caller c stands: "idle", "listing" (awaiting getAllTables),
\*               "tables" (in the per-table loop), "returned", "threw"
\*   cforce[c]   the forceRefresh argument of c's call
\*   cnow[c]     the value of now captured by c's call
\*   cobj[c]     the schema object c's introspection is building
\*   ctodo[c]    the tables c's loop has still to analyse
\*   cret[c]     the reference c's call returned
\*   introspections  the number of calls of getCompleteSchema so far
\*   ticks       the number of clock steps so far
\*   objInfo     for each object of schemaObjs, the table list its introspection
\*               read from getAllTables (history)
\*   sinceClear  "quiet" or "inflight" from a clearSchemaCache call (made with
\*               no refresh, or with a refresh, in flight) until the next call
\*               of getCachedSchema or the next store into the cache; else "no"
\*   staleCallers  the callers whose introspection was in flight when
\*               clearSchemaCache was called (history)
\*   staleCache  the snapshot in the cache was stored by such a caller (history)
VARIABLES schemaCache, schemaCacheTime, schemaObjs, clock, catalog,
          cpc, cforce, cnow, cobj, ctodo, cret, introspections, ticks, sinceClear,
          objInfo, staleCallers, staleCache

cacheVars == << schemaCache, schemaCacheTime, schemaObjs, clock, catalog,
                cpc, cforce, cnow, cobj, ctodo, cret, introspections, ticks,
                sinceClear, objInfo, staleCallers, staleCache >>

\* The request handler generateChartFromPrompt.
\*   pc          "idle", "schema" (awaiting getCachedSchema), "ai" (awaiting
\*               generateChartWithAI), "exec" (awaiting executeQuery), "responded"
\*   body        req.body: the prompt and the options
\*   aiResponse  what generateChartWithAI returned; vegaSpec is a heap reference
\*   heap        the objects of the request
\*   executed    the SQL texts passed to executeQuery, in order
\*   data, normalizedData, enhanced   the handler's constants of those names
\*   response    what res.status(..).json(..) sent
\*   widgetSaves the saveWidget calls made, with their arguments
VARIABLES pc, body, aiResponse, heap, executed, data, normalizedData, enhanced,
          response, widgetSaves

\* The widget store and the calls of saveWidget.
\*   wpc[w]      where the call w of saveWidget stands: "idle", "updating"
\*               (awaiting Widget.update), "creating" (awaiting Widget.create),
\*               "saved", "failed" (rejected, and the rejection logged)
\*   widgets     the rows of the widgets table
\*   errorLog    the lines written by console.error
VARIABLES wpc, widgets, errorLog

widgetVars == << wpc, widgets, errorLog >>

\* What the request handler did.
\*   responses       the number of calls of res.status(..).json(..)
\*   parsedResponse  the reply generateChartWithAI parsed, as a sequence of
\*                   one element (empty until then)
\*   aiError         the message of the error generateChartWithAI threw ("" if
\*                   it threw none)
VARIABLES responses, parsedResponse, aiError

callVars == << responses, parsedResponse, aiError >>

\* The summary and the suggestions computed for a result.
\*   chartRows      the rows given to generateChartSummary and
\*                  suggestAlternativeCharts
\*   chartAnalysis  the analysis given to them
\*   summary        what generateChartSummary returned
\*   alternatives   what suggestAlternativeCharts returned
\*   chartCalls     which of the two were called: "summary", "alternatives"
VARIABLES chartRows, chartAnalysis, summary, alternatives, chartCalls

chartVars == << chartRows, chartAnalysis, summary, alternatives, chartCalls >>

\* Column discovery.
\*   dialect        sequelize.getDialect()
\*   catalogColumn  a row the catalog query returns
\*   tableColumn    the element getTableColumns makes of it
\*   storedColumn   the column getCompleteSchema stores, or the throw
\*   kpc            "ready", "fetched", "stored", "threw"
VARIABLES dialect, catalogColumn, tableColumn, storedColumn, kpc

columnVars == << dialect, catalogColumn, tableColumn, storedColumn, kpc >>

pipeVars == << pc, body, aiResponse, heap, executed, data, normalizedData, enhanced,
               response, widgetSaves, widgetVars, callVars >>

\* lastWidget: what the last call of getLastWidget returned
VARIABLES lastWidget

\* The hook useChartGenerator of the frontend.
\*   isLoading, chartData, error, successMessage   the hook's state; null is
\*                  the empty sequence, a value the sequence of that value
\*   recentPrompts  the recent prompts kept in localStorage
\*   hcalls         the calls of generateChart(prompt) made so far, each with
\*                  its prompt and "pending", "resolved" or "rejected"
\*   settled        the calls in the order they settled (history)
\*   retries        the number of calls of retry() (history)
VARIABLES isLoading, chartData, error, successMessage, recentPrompts, hcalls, settled,
          retries

hookVars == << isLoading, chartData, error, successMessage, recentPrompts, hcalls, settled,
              retries >>

vars == << guardVars, execVars, cacheVars, pipeVars, chartVars, columnVars, lastWidget,
          hookVars >>

NoReply == Reply(<< >>, FALSE, 0, FALSE, "")

NoChart == [spec |-> Null, mark |-> Null]

NoResponse ==
  [status |-> 0, success |-> FALSE, message |-> "", errors |-> << >>,
   warnings |-> << >>, error |-> "", hint |-> "", dataCount |-> 0, data |-> << >>,
   vegaSpec |-> 0, chart |-> NoChart, summary |-> NoSummary, alternatives |-> << >>]

NoBody ==
  [prompt |-> Prompt(FALSE, 0, FALSE),
   options |-> [maxRows |-> Undefined, chartOptions |-> ChartDefaults]]

PipeIdle ==
  /\ pc = "idle"
  /\ body = NoBody
  /\ aiResponse = NoReply
  /\ heap = << >>
  /\ executed = << >>
  /\ data = << >>
  /\ normalizedData = << >>
  /\ enhanced = 0
  /\ response = NoResponse
  /\ widgetSaves = << >>
  /\ wpc = [w \in Savers |-> "idle"]
  /\ widgets = << >>
  /\ errorLog = << >>
  /\ responses = 0
  /\ parsedResponse = << >>
  /\ aiError = ""

GuardIdle ==
  /\ sqlQuery = << >>
  /\ schema = SchemaObject(0, << >>)
  /\ validation = NewValidation
  /\ gpc = "ready"
  /\ vegaInput = NoSpecText
  /\ vegaValidation = NewVegaValidation
  /\ vpc = "ready"

ExecIdle ==
  /\ driver = DriverFailed
  /\ maxRowsOpt = Undefined
  /\ execResult = [ok |-> FALSE, rows |-> << >>, error |-> Null]
  /\ epc = "ready"

ChartIdle ==
  /\ chartRows = << >>
  /\ chartAnalysis = NoReply.analysis
  /\ summary = NoSummary
  /\ alternatives = << >>
  /\ chartCalls = { }

\* the row getLastWidget resolves with (0 for null), none before the call
NoLastWidget == [called |-> FALSE, row |-> 0]

\* the hook as useState initialises it
HookInit ==
  /\ isLoading = FALSE
  /\ chartData = << >>
  /\ error = << >>
  /\ successMessage = << >>
  /\ recentPrompts = << >>
  /\ hcalls = << >>
  /\ settled = << >>
  /\ retries = 0

ColumnIdle ==
  /\ HookInit
  /\ lastWidget = NoLastWidget
  /\ dialect = "postgres"
  /\ catalogColumn = CatalogColumn(<< >>, "", FALSE, "")
  /\ tableColumn = TableColumn(FALSE, << >>, "", FALSE, "", << >>, "")
  /\ storedColumn = NoStoredColumn
  /\ kpc = "ready"

\* the state of the module databaseSchema.js once loaded
CacheInit ==
  /\ schemaCache = 0
  /\ schemaCacheTime = 0
  /\ schemaObjs = << >>
  /\ objInfo = << >>
  /\ clock = 1
  /\ catalog = << "sales" >>
  /\ cpc = [c \in AllCallers |-> "idle"]
  /\ cforce = [c \in AllCallers |-> FALSE]
  /\ cnow = [c \in AllCallers |-> 0]
  /\ cobj = [c \in AllCallers |-> 0]
  /\ ctodo = [c \in AllCallers |-> << >>]
  /\ cret = [c \in AllCallers |-> 0]
  /\ introspections = 0
  /\ ticks = 0
  /\ sinceClear = "no"
  /\ staleCallers = { }
  /\ staleCache = FALSE

GuardInit ==
  /\ \/ /\ sqlQuery \in Texts(MaxFrags)
        /\ schema \in GuardSchemas
        /\ vegaInput = NoSpecText
        /\ vpc = "idle"
     \/ /\ sqlQuery = << >>
        /\ schema = SchemaObject(0, << >>)
        /\ vegaInput \in VegaInputs
        /\ vpc = "ready"
  /\ validation = NewValidation
  /\ gpc = "ready"
  /\ vegaValidation = NewVegaValidation
  /\ ExecIdle
  /\ CacheInit
  /\ PipeIdle
  /\ ChartIdle
  /\ ColumnIdle

\* a call validateQuery(sqlQuery, schema)
ValidateQueryCall ==
  /\ gpc = "ready"
  /\ gpc' = "validated"
  /\ validation' = validateQuery(sqlQuery, schema)
  /\ UNCHANGED << sqlQuery, schema, vegaVars, execVars, chartVars, columnVars, lastWidget, hookVars, cacheVars, pipeVars >>

\* a call validateVegaSpec(vegaSpec) on the parsed vegaInput
ValidateVegaSpecCall ==
  /\ vpc = "ready"
  /\ vpc' = "validated"
  /\ LET parsed == ParseSpec(<< >>, vegaInput)
     IN  vegaValidation' = validateVegaSpec(parsed.heap, parsed.ref)
  /\ UNCHANGED << sqlQuery, schema, validation, gpc, vegaInput, execVars, chartVars, columnVars, lastWidget, hookVars, cacheVars,
                  pipeVars >>

GuardNext == ValidateQueryCall \/ ValidateVegaSpecCall

SpecGuard == GuardInit /\ [][GuardNext]_vars

(***************************************************************************)
(* The query executor applied to every driver outcome                      *)
(***************************************************************************)
MaxRowsInputs == 0..MaxResultLen

ExecInit ==
  /\ GuardIdle
  /\ driver \in { DriverOk(r) : r \in RowSeqs(MaxResultLen) }
               \cup { DriverOk(GeneratedResult(DefaultMaxRows + 1)), DriverFailed }
  /\ maxRowsOpt \in { Given(k) : k \in MaxRowsInputs } \cup { Undefined }
  /\ execResult = [ok |-> FALSE, rows |-> << >>, error |-> Null]
  /\ epc = "ready"
  /\ CacheInit
  /\ PipeIdle
  /\ ChartIdle
  /\ ColumnIdle

\* a call executeQuery(sql, { maxRows })
ExecuteQueryCall ==
  /\ epc = "ready"
  /\ epc' = "executed"
  /\ execResult' = executeQuery(driver, maxRowsOpt)
  /\ UNCHANGED << driver, maxRowsOpt, guardVars, cacheVars, pipeVars, chartVars, columnVars, lastWidget, hookVars >>

ExecNext == ExecuteQueryCall

SpecExec == ExecInit /\ [][ExecNext]_vars

(***************************************************************************)
(* Column discovery applied to every catalog row                           *)
(***************************************************************************)
ColumnNames ==
  { << "i", "d" >>,
    << "u", "s", "e", "r", "_", "i", "d" >>,
    << "u", "s", "e", "r", "_", "i", "d", "_", "o", "l", "d" >>,
    << "i", "s", "_", "a", "c", "t", "i", "v", "e" >>,
    << "i", "s", "_", "p", "a", "i", "d" >>,
    << "h", "a", "s", "_", "s", "t", "o", "c", "k" >>,
    << "h", "a", "s", "_", "n", "a", "m", "e" >>,
    << "t", "o", "t", "a", "l" >>,
    << "o", "r", "d", "e", "r", "_", "t", "o", "t", "a", "l" >>,
    << "p", "a", "i", "d" >>,
    << "c", "r", "e", "a", "t", "e", "d", "_", "o", "n" >>,
    << "s", "t", "a", "t", "u", "s" >> }

\* data_type as information_schema spells it, and the declared type of SQLite
RawTypes ==
  { "integer", "INTEGER", "Varchar", "character varying", "timestamp without time zone",
    "boolean", "uuid", "tinyint", "USER-DEFINED" }

CatalogComments == { "", "Customer key" }

ColumnInit ==
  /\ GuardIdle
  /\ ExecIdle
  /\ CacheInit
  /\ PipeIdle
  /\ ChartIdle
  /\ dialect \in Dialects
  /\ lastWidget = NoLastWidget
  /\ HookInit
  /\ catalogColumn \in { CatalogColumn(n, t, FALSE, c) :
                           n \in ColumnNames, t \in RawTypes, c \in CatalogComments }
  /\ dialect = "sqlite" => catalogColumn.comment = ""
  /\ tableColumn = TableColumn(FALSE, << >>, "", FALSE, "", << >>, "")
  /\ storedColumn = NoStoredColumn
  /\ kpc = "ready"

\* getTableColumns(tableName) returns
GetTableColumnsReturn ==
  /\ kpc = "ready"
  /\ kpc' = "fetched"
  /\ tableColumn' = getTableColumns(dialect, catalogColumn)
  /\ UNCHANGED << dialect, catalogColumn, storedColumn, guardVars, execVars, cacheVars,
                  pipeVars, chartVars, lastWidget, hookVars >>

\* getCompleteSchema maps the columns into the table entry, or throws
ColumnStored ==
  /\ kpc = "fetched"
  /\ storedColumn' = StoreColumn(tableColumn)
  /\ kpc' = IF storedColumn'.threw THEN "threw" ELSE "stored"
  /\ UNCHANGED << dialect, catalogColumn, tableColumn, guardVars, execVars, cacheVars,
                  pipeVars, chartVars, lastWidget, hookVars >>

ColumnNext == GetTableColumnsReturn \/ ColumnStored

SpecColumns == ColumnInit /\ [][ColumnNext]_vars

(***************************************************************************)
(* The summary and the suggestions applied to every result                 *)
(***************************************************************************)
\* rows as the handler normalises them, and rows no normalisation touched
ChartRowValues ==
  SampleRows \cup { DriverRow(Num(3), Num(4)), DriverRow(Str("12px"), Str("7")),
                    DriverRow(Str("a"), Num(10)), DriverRow(Str("Monday"), Num(1)) }

\* the row sequences of length at most n over ChartRowValues
RECURSIVE ChartRowSeqs(_)
ChartRowSeqs(n) ==
  IF n = 0 THEN { << >> }
  ELSE LET R == ChartRowSeqs(n - 1)
       IN  R \cup { Append(r, x) : r \in R, x \in ChartRowValues }

\* results whose columns carry other names
NamedResults ==
  { << [order_date |-> Str("a"), v |-> Num(1)] >>,
    << [weekday |-> Num(1), v |-> Num(2)], [weekday |-> Num(2), v |-> Num(5)] >>,
    << [name |-> Str("a"), qty |-> Num(2), price |-> Str("10")] >>,
    [k \in 1..(PieLimit + 1) |-> DriverRow(Num(k), Num(k))] }

ChartResults ==
  ChartRowSeqs(MaxResultLen) \cup NamedResults
    \cup { GeneratedResult(PieLimit), GeneratedResult(PieLimit + 1) }

ChartTypes == { "bar", "line", "arc", "point" }

ChartInit ==
  /\ GuardIdle
  /\ ExecIdle
  /\ CacheInit
  /\ PipeIdle
  /\ chartRows \in ChartResults
  /\ chartAnalysis \in { [NoReply.analysis EXCEPT !.chartType = t] : t \in ChartTypes }
  /\ summary = NoSummary
  /\ alternatives = << >>
  /\ chartCalls = { }
  /\ ColumnIdle

\* a call generateChartSummary(data, analysis)
GenerateChartSummaryCall ==
  /\ "summary" \notin chartCalls
  /\ chartCalls' = chartCalls \cup { "summary" }
  /\ summary' = generateChartSummary(chartRows, chartAnalysis)
  /\ UNCHANGED << chartRows, chartAnalysis, alternatives, guardVars, execVars, cacheVars,
                  pipeVars, columnVars, lastWidget, hookVars >>

\* a call suggestAlternativeCharts(data, analysis)
SuggestAlternativeChartsCall ==
  /\ "alternatives" \notin chartCalls
  /\ chartCalls' = chartCalls \cup { "alternatives" }
  /\ alternatives' = suggestAlternativeCharts(chartRows, chartAnalysis)
  /\ UNCHANGED << chartRows, chartAnalysis, summary, guardVars, execVars, cacheVars,
                  pipeVars, columnVars, lastWidget, hookVars >>

ChartNext == GenerateChartSummaryCall \/ SuggestAlternativeChartsCall

SpecChart == ChartInit /\ [][ChartNext]_vars

(***************************************************************************)
(* The schema cache under concurrent callers                               *)
(***************************************************************************)
\* a refresh is in flight
InFlight == \E c \in AllCallers : cpc[c] \in {"listing", "tables"}

\* getCachedSchema as if a miss joined the refresh that is in flight instead
\* of starting its own
GetCachedSchemaBodyShared(c, forceRefresh, cache, cacheTime) ==
  /\ cforce' = [cforce EXCEPT ![c] = forceRefresh]
  /\ cnow' = [cnow EXCEPT ![c] = clock]
  /\ IF CacheIsFresh(cache, cacheTime, clock, forceRefresh)
     THEN /\ cret' = [cret EXCEPT ![c] = cache]
          /\ cpc' = [cpc EXCEPT ![c] = "returned"]
          /\ UNCHANGED introspections
     ELSE /\ introspections < MaxIntrospections
          /\ introspections' = IF InFlight THEN introspections ELSE introspections + 1
          /\ cpc' = [cpc EXCEPT ![c] = "listing"]
          /\ UNCHANGED cret

\* getCachedSchema(forceRefresh) up to its return or its await
GetCachedSchemaBody(c, forceRefresh, cache, cacheTime) ==
  /\ cforce' = [cforce EXCEPT ![c] = forceRefresh]
  /\ cnow' = [cnow EXCEPT ![c] = clock]
  /\ IF CacheIsFresh(cache, cacheTime, clock, forceRefresh)
     THEN /\ cret' = [cret EXCEPT ![c] = cache]
          /\ cpc' = [cpc EXCEPT ![c] = "returned"]
          /\ UNCHANGED introspections
     ELSE /\ introspections < MaxIntrospections
          /\ introspections' = introspections + 1
          /\ cpc' = [cpc EXCEPT ![c] = "listing"]
          /\ UNCHANGED cret

\* caller c calls getCachedSchema(forceRefresh)
GetCachedSchemaCall(c, forceRefresh) ==
  /\ cpc[c] = "idle"
  /\ GetCachedSchemaBody(c, forceRefresh, schemaCache, schemaCacheTime)
  /\ sinceClear' = "no"
  /\ UNCHANGED << staleCallers, staleCache >>
  /\ UNCHANGED << schemaCache, schemaCacheTime, schemaObjs, objInfo, clock, catalog, cobj,
                  ctodo, ticks, guardVars, execVars, chartVars, columnVars, lastWidget, hookVars, pipeVars >>

\* getCompleteSchema as if it built the schema inside the cache variable
GetAllTablesReturnInPlace(c) ==
  /\ cpc[c] = "listing"
  /\ schemaObjs' = Append(schemaObjs, EmptySchemaObject)
  /\ objInfo' = Append(objInfo, [listed |-> catalog])
  /\ cobj' = [cobj EXCEPT ![c] = Len(schemaObjs) + 1]
  /\ ctodo' = [ctodo EXCEPT ![c] = catalog]
  /\ cpc' = [cpc EXCEPT ![c] = "tables"]
  /\ schemaCache' = Len(schemaObjs) + 1
  /\ schemaCacheTime' = cnow[c]
  /\ staleCache' = (c \in staleCallers)
  /\ UNCHANGED << clock, catalog, cforce, cnow, cret,
                  introspections, ticks, sinceClear, staleCallers, guardVars, execVars, chartVars, columnVars, lastWidget, hookVars, pipeVars >>

\* getAllTables resolves in c's getCompleteSchema: the schema object is created
GetAllTablesReturn(c) ==
  /\ cpc[c] = "listing"
  /\ schemaObjs' = Append(schemaObjs, EmptySchemaObject)
  /\ objInfo' = Append(objInfo, [listed |-> catalog])
  /\ cobj' = [cobj EXCEPT ![c] = Len(schemaObjs) + 1]
  /\ ctodo' = [ctodo EXCEPT ![c] = catalog]
  /\ cpc' = [cpc EXCEPT ![c] = "tables"]
  /\ UNCHANGED << schemaCache, schemaCacheTime, clock, catalog, cforce, cnow, cret,
                  introspections, ticks, sinceClear, staleCallers, staleCache, guardVars, execVars, chartVars, columnVars, lastWidget, hookVars, pipeVars >>

\* one round of the loop: the table's columns and relationships are read and
\* its entry is pushed onto schema.tables
AnalyzeTable(c) ==
  /\ cpc[c] = "tables"
  /\ ctodo[c] # << >>
  /\ schemaObjs' = [schemaObjs EXCEPT ![cobj[c]].tables = Append(@, TableEntry(Head(ctodo[c])))]
  /\ ctodo' = [ctodo EXCEPT ![c] = Tail(@)]
  /\ UNCHANGED << objInfo, schemaCache, schemaCacheTime, clock, catalog, cpc, cforce, cnow,
                  cobj, cret, introspections, ticks, sinceClear, staleCallers, staleCache, guardVars, execVars, chartVars, columnVars, lastWidget, hookVars, pipeVars >>

\* getCompleteSchema returns and getCachedSchema resumes:
\* schemaCache = <the schema>; schemaCacheTime = now; return schemaCache
GetCompleteSchemaReturn(c) ==
  /\ cpc[c] = "tables"
  /\ ctodo[c] = << >>
  /\ schemaCache' = cobj[c]
  /\ schemaCacheTime' = cnow[c]
  /\ cret' = [cret EXCEPT ![c] = cobj[c]]
  /\ cpc' = [cpc EXCEPT ![c] = "returned"]
  /\ sinceClear' = "no"
  /\ staleCache' = (c \in staleCallers)
  /\ UNCHANGED staleCallers
  /\ UNCHANGED << schemaObjs, objInfo, clock, catalog, cforce, cnow, cobj, ctodo,
                  introspections, ticks, guardVars, execVars, chartVars, columnVars, lastWidget, hookVars, pipeVars >>

\* a rejection as if the catch emptied the cache before rethrowing
GetCompleteSchemaThrowClearing(c) ==
  /\ cpc[c] \in {"listing", "tables"}
  /\ cpc' = [cpc EXCEPT ![c] = "threw"]
  /\ schemaCache' = 0
  /\ schemaCacheTime' = 0
  /\ UNCHANGED << schemaObjs, objInfo, clock, catalog, cforce,
                  cnow, cobj, ctodo, cret, introspections, ticks, sinceClear, staleCallers,
                  staleCache, guardVars, execVars, chartVars, columnVars, lastWidget, hookVars, pipeVars >>

\* a catalog query rejects: getCompleteSchema rethrows, getCachedSchema rejects
GetCompleteSchemaThrow(c) ==
  /\ cpc[c] \in {"listing", "tables"}
  /\ cpc' = [cpc EXCEPT ![c] = "threw"]
  /\ UNCHANGED << schemaCache, schemaCacheTime, schemaObjs, objInfo, clock, catalog, cforce,
                  cnow, cobj, ctodo, cret, introspections, ticks, sinceClear, staleCallers, staleCache,
                  guardVars, execVars, chartVars, columnVars, lastWidget, hookVars, pipeVars >>

\* the caller has consumed the outcome of its call
CallerDone(c) ==
  /\ cpc[c] \in {"returned", "threw"}
  /\ cpc' = [cpc EXCEPT ![c] = "idle"]
  /\ cforce' = [cforce EXCEPT ![c] = FALSE]
  /\ cnow' = [cnow EXCEPT ![c] = 0]
  /\ cobj' = [cobj EXCEPT ![c] = 0]
  /\ ctodo' = [ctodo EXCEPT ![c] = << >>]
  /\ cret' = [cret EXCEPT ![c] = 0]
  /\ staleCallers' = staleCallers \ { c }
  /\ UNCHANGED << schemaCache, schemaCacheTime, schemaObjs, objInfo, clock, catalog,
                  introspections, ticks, sinceClear, staleCache, guardVars, execVars, chartVars, columnVars, lastWidget, hookVars, pipeVars >>

\* the invalidation as if it spared an entry that is still fresh
ClearSchemaCacheIfExpired ==
  /\ IF schemaCache # 0 /\ (clock - schemaCacheTime) < CACHE_DURATION
     THEN UNCHANGED << schemaCache, schemaCacheTime >>
     ELSE schemaCache' = 0 /\ schemaCacheTime' = 0
  /\ sinceClear' = IF InFlight THEN "inflight" ELSE "quiet"
  /\ staleCallers' = staleCallers \cup { c \in AllCallers : cpc[c] \in {"listing", "tables"} }
  /\ staleCache' = FALSE
  /\ UNCHANGED << schemaObjs, objInfo, clock, catalog, cpc, cforce, cnow, cobj, ctodo, cret,
                  introspections, ticks, guardVars, execVars, chartVars, columnVars, lastWidget, hookVars, pipeVars >>

\* clearSchemaCache()
ClearSchemaCache ==
  /\ schemaCache' = 0
  /\ schemaCacheTime' = 0
  /\ sinceClear' = IF InFlight THEN "inflight" ELSE "quiet"
  /\ staleCallers' = staleCallers \cup { c \in AllCallers : cpc[c] \in {"listing", "tables"} }
  /\ staleCache' = FALSE
  /\ UNCHANGED << schemaObjs, objInfo, clock, catalog, cpc, cforce, cnow, cobj, ctodo, cret,
                  introspections, ticks, guardVars, execVars, chartVars, columnVars, lastWidget, hookVars, pipeVars >>

\* refreshSchemaCache: clearSchemaCache() and then getCachedSchema(true), with
\* no await between the two
RefreshSchemaCache(c) ==
  /\ cpc[c] = "idle"
  /\ schemaCache' = 0
  /\ schemaCacheTime' = 0
  /\ GetCachedSchemaBody(c, TRUE, 0, 0)
  /\ sinceClear' = "no"
  /\ staleCallers' = staleCallers \cup { x \in AllCallers : cpc[x] \in {"listing", "tables"} }
  /\ staleCache' = FALSE
  /\ UNCHANGED << schemaObjs, objInfo, clock, catalog, cobj, ctodo, ticks, guardVars, execVars, chartVars, columnVars, lastWidget, hookVars, pipeVars >>

\* time passes
Tick(d) ==
  /\ ticks < MaxTicks
  /\ ticks' = ticks + 1
  /\ clock' = clock + d
  /\ UNCHANGED << schemaCache, schemaCacheTime, schemaObjs, objInfo, catalog, cpc, cforce,
                  cnow, cobj, ctodo, cret, introspections, sinceClear, staleCallers, staleCache, guardVars,
                  execVars, chartVars, columnVars, lastWidget, hookVars, pipeVars >>

\* a migration changes the tables of the database
Migrate ==
  /\ catalog' \in Catalogs \ { catalog }
  /\ UNCHANGED << schemaCache, schemaCacheTime, schemaObjs, objInfo, clock, cpc, cforce, cnow,
                  cobj, ctodo, cret, introspections, ticks, sinceClear, staleCallers, staleCache, guardVars,
                  execVars, chartVars, columnVars, lastWidget, hookVars, pipeVars >>

CacheSpecInit == GuardIdle /\ ExecIdle /\ CacheInit /\ PipeIdle /\ ChartIdle /\ ColumnIdle

CacheNext ==
  \/ \E c \in Callers, f \in BOOLEAN : GetCachedSchemaCall(c, f)
  \/ \E c \in Callers : GetAllTablesReturn(c)
  \/ \E c \in Callers : AnalyzeTable(c)
  \/ \E c \in Callers : GetCompleteSchemaReturn(c)
  \/ \E c \in Callers : GetCompleteSchemaThrow(c)
  \/ \E c \in Callers : CallerDone(c)
  \/ \E c \in Callers : RefreshSchemaCache(c)
  \/ ClearSchemaCache
  \/ \E d \in TickSteps : Tick(d)
  \/ Migrate

SpecCache == CacheSpecInit /\ [][CacheNext]_vars

(***************************************************************************)
(* The request handler generateChartFromPrompt                             *)
(***************************************************************************)
\* the request bodies
RequestBodies ==
  { [prompt |-> p, options |-> [maxRows |-> m, chartOptions |-> o]] :
      p \in { Prompt(TRUE, 28, FALSE), Prompt(FALSE, 0, FALSE), Prompt(TRUE, 2, FALSE) },
      m \in { Undefined, Given(0), Given(2) },
      o \in { ChartDefaults,
              [theme |-> "dark", responsive |-> TRUE, tooltip |-> TRUE],
              [theme |-> "default", responsive |-> FALSE, tooltip |-> FALSE] } }

\* the SQL texts the generation service answers with
PipelineSql ==
  { << "select", " ", "*", " ", "FROM", " ", "sales" >>,
    << "select", " ", "*", " ", "from", "\n", "ghost_table" >>,
    << "select", " ", "*", " ", "FROM", " ", "sales", ";", "UPDATE", " ", "sales" >>,
    << "SELECT", " ", "*", " ", "FROM", " ", "sales", ";", "DROP", " ", "TABLE", " ", "sales" >>,
    << "DROP", " ", "TABLE", " ", "sales" >>,
    << "UPDATE", " ", "sales" >> }

\* the chart specs the generation service answers with
PipelineSpecs ==
  { SpecText(TRUE, MarkCell("bar", "shorthand"), TRUE, TRUE, SizeUnset, SizeUnset),
    SpecText(TRUE, MarkCell("line", "unset"), TRUE, TRUE, SizeUnset, SizeUnset),
    SpecText(TRUE, MarkCell("point", "false"), TRUE, TRUE, SizeNumber(500), SizeNumber(300)),
    SpecText(TRUE, MarkCell("", "absent"), TRUE, FALSE, SizeUnset, SizeUnset),
    SpecText(TRUE, MarkCell("", "null"), TRUE, TRUE, SizeUnset, SizeUnset) }

\* the messages of the errors the call of the generation service ends with
AiErrors == { "Incorrect API key provided", "Request timed out", "Unexpected token in JSON" }

\* the replies that parse as JSON
AiReplies ==
  LET q   == CHOOSE t \in PipelineSql : Len(t) = 7 /\ t[5] = "FROM"
      bar == CHOOSE t \in PipelineSpecs : t.mark.type = "bar"
  IN  { Reply(t, TRUE, sp, TRUE, "bar") : t \in PipelineSql, sp \in PipelineSpecs }
        \cup { Reply(<< >>, TRUE, bar, TRUE, "bar"),
               Reply(q, FALSE, NoSpecText, TRUE, "bar"),
               Reply(q, TRUE, bar, FALSE, "bar"),
               Reply(q, TRUE, [bar EXCEPT !.hasEncoding = FALSE], TRUE, "bar"),
               Reply(q, TRUE, [bar EXCEPT !.hasSchema = FALSE], TRUE, "bar"),
               Reply(<< >>, FALSE, NoSpecText, FALSE, "bar") }

\* the outcomes of sequelize.query
DriverOutcomes ==
  { DriverFailed,
    DriverOk(<< >>),
    DriverOk(<< DriverRow(Str("a"), Str("10")) >>),
    DriverOk(<< DriverRow(Str("a"), Str("10")), DriverRow(Str("b"), Num(20)),
                DriverRow(Str(" 7 "), Str("  ")) >>),
    DriverOk(GeneratedResult(LargeDataset + 1)) }

\* the response of the catch block with the hint left out
FailureResponseWithoutHint(msg) ==
  [NoResponse EXCEPT !.status = 500, !.message = "Failed to generate chart",
                     !.error = msg]

\* the response of the catch block
FailureResponse(msg) ==
  [NoResponse EXCEPT !.status = 500, !.message = "Failed to generate chart",
                     !.error = msg, !.hint = getErrorHint(msg)]

\* the handler is entered: the prompt is validated and, if it is valid,
\* getCachedSchema() is called
ReceiveRequest(b) ==
  /\ pc = "idle"
  /\ body' = b
  /\ IF ~validatePrompt(b.prompt).valid
     THEN /\ response' = [NoResponse EXCEPT !.status = 400, !.message = "Invalid prompt",
                                            !.errors = validatePrompt(b.prompt).errors]
          /\ pc' = "responded"
          /\ responses' = responses + 1
          /\ UNCHANGED << cpc, cforce, cnow, cret, introspections, sinceClear, staleCallers, staleCache >>
     ELSE /\ cpc["req"] = "idle"
          /\ GetCachedSchemaBody("req", FALSE, schemaCache, schemaCacheTime)
          /\ sinceClear' = "no"
          /\ UNCHANGED << staleCallers, staleCache >>
          /\ pc' = "schema"
          /\ UNCHANGED << response, responses >>
  /\ UNCHANGED << schemaCache, schemaCacheTime, schemaObjs, objInfo, clock, catalog, cobj, ctodo,
                  ticks, aiResponse, heap, executed, data, normalizedData, enhanced,
                  widgetSaves, widgetVars, parsedResponse, aiError, guardVars, execVars, chartVars, columnVars, lastWidget, hookVars >>

\* getCachedSchema resolved: generateChartWithAI is called
SchemaResolved ==
  /\ pc = "schema"
  /\ cpc["req"] = "returned"
  /\ pc' = "ai"
  /\ UNCHANGED << body, aiResponse, heap, executed, data, normalizedData, enhanced,
                  response, widgetSaves, widgetVars, callVars, guardVars, execVars, chartVars, columnVars, lastWidget, hookVars,
                  cacheVars >>

\* getCachedSchema rejected: the catch block answers
SchemaRejected ==
  /\ pc = "schema"
  /\ cpc["req"] = "threw"
  /\ response' = FailureResponse("connect ECONNREFUSED")
  /\ responses' = responses + 1
  /\ pc' = "responded"
  /\ UNCHANGED << body, aiResponse, heap, executed, data, normalizedData, enhanced,
                  widgetSaves, widgetVars, parsedResponse, aiError, guardVars, execVars, chartVars, columnVars, lastWidget, hookVars,
                  cacheVars >>

\* generateChartWithAI rejected with the error of the service call or of
\* JSON.parse: the catch block answers
AiFailed(msg) ==
  /\ pc = "ai"
  /\ aiError' = "AI generation failed: " \o msg
  /\ response' = FailureResponse(aiError')
  /\ responses' = responses + 1
  /\ pc' = "responded"
  /\ UNCHANGED << body, aiResponse, heap, executed, data, normalizedData, enhanced,
                  widgetSaves, widgetVars, parsedResponse, guardVars, execVars, chartVars, columnVars, lastWidget, hookVars, cacheVars >>

\* the service answered with a reply that parses: validateAIResponse, then the
\* handler validates the SQL and either rejects it or calls executeQuery
AiReplied(reply) ==
  /\ pc = "ai"
  /\ parsedResponse' = << reply >>
  /\ IF validateAIResponse(reply) # "ok"
     THEN /\ aiError' = "AI generation failed: " \o validateAIResponse(reply)
          /\ response' = FailureResponse(aiError')
          /\ responses' = responses + 1
          /\ pc' = "responded"
          /\ UNCHANGED << aiResponse, heap, executed, guardVars >>
     ELSE LET parsed == ParseSpec(heap, reply.vegaSpec)
              sch    == SchemaObject(cret["req"],
                          [k \in 1..Len(schemaObjs[cret["req"]].tables) |->
                             schemaObjs[cret["req"]].tables[k].name[1]])
              v      == validateQuery(reply.sqlQuery, sch)
          IN  /\ heap' = parsed.heap
              /\ aiResponse' = [reply EXCEPT !.vegaSpec = parsed.ref]
              /\ sqlQuery' = reply.sqlQuery
              /\ schema' = sch
              /\ validation' = v
              /\ gpc' = "validated"
              /\ UNCHANGED vegaVars
              /\ aiError' = ""
              /\ IF ~SqlAdmitted(v)
                 THEN /\ response' = [NoResponse EXCEPT
                                        !.status = 400,
                                        !.message = "Generated SQL is invalid",
                                        !.errors = v.errors,
                                        !.warnings = v.warnings]
                      /\ responses' = responses + 1
                      /\ pc' = "responded"
                      /\ UNCHANGED executed
                 ELSE /\ executed' = Append(executed, reply.sqlQuery)
                      /\ pc' = "exec"
                      /\ UNCHANGED << response, responses >>
  /\ UNCHANGED << body, data, normalizedData, enhanced, widgetSaves, widgetVars, execVars, chartVars, columnVars, lastWidget, hookVars,
                  cacheVars >>

\* a rejected saveWidget answered as the catch block answers
OnWidgetSaveRejectedRespond(sent) ==
  [NoResponse EXCEPT !.status = 500, !.message = "Failed to generate chart",
                     !.error = "Widget save failed",
                     !.hint = getErrorHint("Widget save failed")]

\* the handler of a rejected saveWidget, .catch(err => console.error(..)),
\* leaves the response that was sent as it is
OnWidgetSaveRejected(sent) == sent

\* executeQuery settled with the driver's outcome d: the catch block answers a
\* failure; zero rows are answered with the placeholder spec; otherwise the
\* spec is validated (invalid is only logged, a throw goes to the catch
\* block) and enhanced, the widget save is started and the chart is answered
QuerySettled(d) ==
  /\ pc = "exec"
  /\ driver' = d
  /\ maxRowsOpt' = HandlerMaxRows(body.options.maxRows)
  /\ execResult' = executeQuery(d, HandlerMaxRows(body.options.maxRows))
  /\ epc' = "executed"
  /\ responses' = responses + 1
  /\ pc' = "responded"
  /\ IF ~execResult'.ok
     THEN /\ response' = FailureResponse("Query execution failed")
          /\ UNCHANGED << heap, data, normalizedData, enhanced, widgetSaves, widgetVars,
                          vegaValidation, vpc, chartVars >>
     ELSE /\ data' = execResult'.rows
          /\ normalizedData' = NormalizeRows(execResult'.rows)
          /\ IF IsEmptyResult(execResult'.rows)
             THEN /\ heap' = Append(heap, EmptySpecCell)
                  /\ response' = [NoResponse EXCEPT
                                    !.status = 200, !.success = TRUE,
                                    !.message = "Query executed successfully but returned no data.",
                                    !.vegaSpec = Len(heap) + 1,
                                    !.chart = Serialize(heap', Len(heap) + 1)]
                  /\ UNCHANGED << enhanced, widgetSaves, widgetVars, vegaValidation, vpc,
                                  chartVars >>
             ELSE /\ vegaValidation' = validateVegaSpec(heap, aiResponse.vegaSpec)
                  /\ vpc' = "validated"
                  /\ IF vegaValidation'.threw
                     THEN /\ response' = FailureResponse(
                                           "Cannot read properties of null (reading 'type')")
                          /\ UNCHANGED << heap, enhanced, widgetSaves, widgetVars, chartVars >>
                     ELSE LET e == enhanceVegaSpec(heap, aiResponse.vegaSpec,
                                                   normalizedData', body.options.chartOptions)
                          IN  /\ heap' = e.heap
                              /\ enhanced' = e.ref
                              /\ widgetSaves' = Append(widgetSaves,
                                                       [sqlQuery |-> aiResponse.sqlQuery,
                                                        vegaSpec |-> e.ref,
                                                        analysis |-> aiResponse.analysis])
                              /\ wpc' = [wpc EXCEPT !["w1"] = "updating"]
                              /\ UNCHANGED << widgets, errorLog >>
                              /\ chartRows' = normalizedData'
                              /\ chartAnalysis' = aiResponse.analysis
                              /\ summary' = generateChartSummary(normalizedData',
                                                                  aiResponse.analysis)
                              /\ alternatives' = suggestAlternativeCharts(normalizedData',
                                                                          aiResponse.analysis)
                              /\ chartCalls' = { "summary", "alternatives" }
                              /\ response' = [NoResponse EXCEPT
                                                !.status = 200, !.success = TRUE,
                                                !.dataCount = Len(data'), !.data = data',
                                                !.vegaSpec = e.ref,
                                                !.chart = Serialize(e.heap, e.ref),
                                                !.summary = summary',
                                                !.alternatives = alternatives']
  /\ UNCHANGED << body, aiResponse, executed, parsedResponse, aiError, sqlQuery, schema,
                  validation, gpc, vegaInput, cacheVars, columnVars, lastWidget, hookVars >>

\* saveWidget, first await: Widget.update({isLastWidget: false}, {where:
\* {isLastWidget: true}}) resolved, and Widget.create is called
WidgetUpdated(w) ==
  /\ wpc[w] = "updating"
  /\ widgets' = [k \in 1..Len(widgets) |-> [widgets[k] EXCEPT !.isLastWidget = FALSE]]
  /\ wpc' = [wpc EXCEPT ![w] = "creating"]
  /\ UNCHANGED << errorLog, pc, body, aiResponse, heap, executed, data, normalizedData,
                  enhanced, response, widgetSaves, callVars, guardVars, execVars, chartVars, columnVars, lastWidget, hookVars,
                  cacheVars >>

\* saveWidget: Widget.create({.., isLastWidget: true}) resolved
WidgetCreated(w) ==
  /\ wpc[w] = "creating"
  /\ widgets' = Append(widgets, [savedBy |-> w, isLastWidget |-> TRUE])
  /\ wpc' = [wpc EXCEPT ![w] = "saved"]
  /\ UNCHANGED << errorLog, pc, body, aiResponse, heap, executed, data, normalizedData,
                  enhanced, response, widgetSaves, callVars, guardVars, execVars, chartVars, columnVars, lastWidget, hookVars,
                  cacheVars >>

\* saveWidget rejected, at either await: the handler's .catch logs the error
WidgetSaveRejected(w) ==
  /\ wpc[w] \in { "updating", "creating" }
  /\ wpc' = [wpc EXCEPT ![w] = "failed"]
  /\ errorLog' = Append(errorLog, "Widget save failed:")
  /\ response' = OnWidgetSaveRejected(response)
  /\ UNCHANGED << widgets, pc, body, aiResponse, heap, executed, data, normalizedData,
                  enhanced, widgetSaves, callVars, guardVars, execVars, chartVars, columnVars, lastWidget, hookVars, cacheVars >>

\* Widget.findOne({where: {isLastWidget: true}, order: [['createdAt',
\* 'DESC']]}): the row created last among the flagged ones, 0 if there is none
FindLastWidget(rows) ==
  LET flagged == { k \in DOMAIN rows : rows[k].isLastWidget }
  IN  IF flagged = { } THEN 0 ELSE CHOOSE k \in flagged : \A j \in flagged : j <= k

\* a call saveWidget(widgetData): Widget.update is called
SaveWidgetCall(w) ==
  /\ wpc[w] = "idle"
  /\ wpc' = [wpc EXCEPT ![w] = "updating"]
  /\ UNCHANGED << widgets, errorLog, pc, body, aiResponse, heap, executed, data,
                  normalizedData, enhanced, response, widgetSaves, callVars, guardVars,
                  execVars, chartVars, columnVars, lastWidget, hookVars, cacheVars >>

\* a call getLastWidget() and its result
GetLastWidgetCall ==
  /\ lastWidget' = [called |-> TRUE, row |-> FindLastWidget(widgets)]
  /\ lastWidget' # lastWidget
  /\ UNCHANGED << guardVars, execVars, cacheVars, pipeVars, chartVars, columnVars, hookVars >>

WidgetNext ==
  \/ \E w \in Savers : SaveWidgetCall(w)
  \/ \E w \in Savers : WidgetUpdated(w)
  \/ \E w \in Savers : WidgetCreated(w)
  \/ \E w \in Savers : WidgetSaveRejected(w)
  \/ GetLastWidgetCall

\* concurrent calls of saveWidget, one per request that is being answered
WidgetInit == GuardIdle /\ ExecIdle /\ CacheInit /\ PipeIdle /\ ChartIdle /\ ColumnIdle

SpecWidgets == WidgetInit /\ [][WidgetNext]_vars

(***************************************************************************)
(* The hook useChartGenerator                                              *)
(***************************************************************************)
HookPrompts == { "Show sales by category", "Show users by country" }

\* the messages of the errors generateChart of the API service throws
HookErrors == { "Failed to generate chart", "Network Error" }

\* [prompt, ...recent.filter(p => p !== prompt)].slice(0, MAX_RECENT_PROMPTS)
saveRecentPrompt(recent, prompt) ==
  LET updated == << prompt >> \o SelectSeq(recent, LAMBDA p : p # prompt)
  IN  SubSeq(updated, 1, IF Len(updated) < MAX_RECENT_PROMPTS THEN Len(updated)
                         ELSE MAX_RECENT_PROMPTS)

\* what no operation of the hook touches
HookFrame ==
  UNCHANGED << guardVars, execVars, cacheVars, pipeVars, chartVars, columnVars, lastWidget >>

\* handleGenerateChart(prompt) up to its await: setError(null),
\* setSuccessMessage(null), setIsLoading(true), generateChart(prompt) is called
HandleGenerateChart(prompt) ==
  /\ Len(hcalls) < MaxHookCalls
  /\ error' = << >>
  /\ successMessage' = << >>
  /\ isLoading' = TRUE
  /\ hcalls' = Append(hcalls, [prompt |-> prompt, status |-> "pending"])

\* the user submits a prompt or selects an example: generateChart(prompt)
GenerateChartCall(prompt) ==
  /\ HandleGenerateChart(prompt)
  /\ UNCHANGED << chartData, recentPrompts, settled, retries >>
  /\ HookFrame

\* call k resolves: the prompt is saved, the result and the success message
\* are set, and finally loading is turned off
GenerateChartResolved(k) ==
  /\ k \in DOMAIN hcalls /\ hcalls[k].status = "pending"
  /\ hcalls' = [hcalls EXCEPT ![k].status = "resolved"]
  /\ settled' = Append(settled, k)
  /\ recentPrompts' = saveRecentPrompt(recentPrompts, hcalls[k].prompt)
  /\ chartData' = << [prompt |-> hcalls[k].prompt] >>
  /\ successMessage' = << "Chart generated successfully!" >>
  /\ isLoading' = FALSE
  /\ UNCHANGED << error, retries >>
  /\ HookFrame

\* call k rejects: the message is set, the chart data is cleared, and finally
\* loading is turned off
GenerateChartRejected(k, msg) ==
  /\ k \in DOMAIN hcalls /\ hcalls[k].status = "pending"
  /\ hcalls' = [hcalls EXCEPT ![k].status = "rejected"]
  /\ settled' = Append(settled, k)
  /\ error' = << msg >>
  /\ chartData' = << >>
  /\ isLoading' = FALSE
  /\ UNCHANGED << successMessage, recentPrompts, retries >>
  /\ HookFrame

\* retry(): if (chartData?.prompt) handleGenerateChart(chartData.prompt)
HandleRetry ==
  /\ retries < MaxRetries
  /\ retries' = retries + 1
  /\ IF chartData # << >>
     THEN HandleGenerateChart(chartData[1].prompt)
     ELSE UNCHANGED << error, successMessage, isLoading, hcalls >>
  /\ UNCHANGED << chartData, recentPrompts, settled >>
  /\ HookFrame

\* clear(): the chart, the error and the success message are reset
HandleClear ==
  /\ chartData # << >> \/ error # << >> \/ successMessage # << >>
  /\ chartData' = << >>
  /\ error' = << >>
  /\ successMessage' = << >>
  /\ UNCHANGED << isLoading, recentPrompts, hcalls, settled, retries >>
  /\ HookFrame

\* clearSuccessMessage()
ClearSuccessMessage ==
  /\ successMessage # << >>
  /\ successMessage' = << >>
  /\ UNCHANGED << isLoading, chartData, error, recentPrompts, hcalls, settled, retries >>
  /\ HookFrame

\* clearError()
ClearError ==
  /\ error # << >>
  /\ error' = << >>
  /\ UNCHANGED << isLoading, chartData, successMessage, recentPrompts, hcalls, settled,
                  retries >>
  /\ HookFrame

HookNext ==
  \/ \E p \in HookPrompts : GenerateChartCall(p)
  \/ \E k \in 1..MaxHookCalls : GenerateChartResolved(k)
  \/ \E k \in 1..MaxHookCalls, msg \in HookErrors : GenerateChartRejected(k, msg)
  \/ HandleRetry
  \/ HandleClear
  \/ ClearSuccessMessage
  \/ ClearError

HookSpecInit == GuardIdle /\ ExecIdle /\ CacheInit /\ PipeIdle /\ ChartIdle /\ ColumnIdle

SpecHook == HookSpecInit /\ [][HookNext]_vars

Init == GuardIdle /\ ExecIdle /\ CacheInit /\ PipeIdle /\ ChartIdle /\ ColumnIdle

Next ==
  \/ \E b \in RequestBodies : ReceiveRequest(b)
  \/ GetAllTablesReturn("req")
  \/ AnalyzeTable("req")
  \/ GetCompleteSchemaReturn("req")
  \/ GetCompleteSchemaThrow("req")
  \/ SchemaResolved
  \/ SchemaRejected
  \/ \E msg \in AiErrors : AiFailed(msg)
  \/ \E reply \in AiReplies : AiReplied(reply)
  \/ \E d \in DriverOutcomes : QuerySettled(d)
  \/ WidgetUpdated("w1")
  \/ WidgetCreated("w1")
  \/ WidgetSaveRejected("w1")

Spec == Init /\ [][Next]_vars

\* The steps that are bound to happen.  The continuations of the handler run
\* once the awaited call has settled; the queries sent to the database settle
\* (executeQuery hands its timeout to the driver).  generateChartWithAI awaits
\* openai.chat.completions.create with no timeout of its own, so nothing says
\* that the generation call settles.
HandlerContinues == SchemaResolved \/ SchemaRejected

IntrospectionSettles ==
  \/ GetAllTablesReturn("req")
  \/ AnalyzeTable("req")
  \/ GetCompleteSchemaReturn("req")
  \/ GetCompleteSchemaThrow("req")

QuerySettles == \E d \in DriverOutcomes : QuerySettled(d)

SpecLive ==
  /\ Init
  /\ [][Next]_vars
  /\ WF_vars(HandlerContinues)
  /\ WF_vars(IntrospectionSettles)
  /\ WF_vars(QuerySettles)

(***************************************************************************)
(* Properties of the SQL guard                                             *)
(***************************************************************************)
\* the text begins with SELECT in any letter case, after optional whitespace
BeginsWithSelect(s) ==
  \E j \in 1..Len(s) :
    /\ s[j] \in {"SELECT", "select"}
    /\ \A k \in 1..(j - 1) : s[k] \in SpaceLexemes

\* keyword k1, one or more whitespace characters, keyword k2, anywhere
ContainsKwSpaceKw(s, k1, k2) ==
  \E i, j \in 1..Len(s) :
    /\ j > i + 1
    /\ s[i] \in k1 /\ s[j] \in k2
    /\ \A m \in (i + 1)..(j - 1) : s[m] \in SpaceLexemes

\* the text matches the p-th denylist pattern somewhere
Denylisted(p, s) ==
  CASE p = 1 -> ContainsKwSpaceKw(s, {"DROP", "drop"}, {"TABLE"})
    [] p = 2 -> ContainsKwSpaceKw(s, {"DROP", "drop"}, {"DATABASE"})
    [] p = 3 -> \E i, j, k \in 1..Len(s) :
                  /\ j > i + 1 /\ k > j
                  /\ s[i] = "DELETE" /\ s[j] \in {"FROM", "from"} /\ s[k] = "WHERE"
                  /\ \A m \in (i + 1)..(j - 1) : s[m] \in SpaceLexemes
                  /\ \A m \in (j + 1)..(k - 1) : s[m] # "\n"
    [] p = 4 -> \E i \in 1..Len(s) : s[i] = "TRUNCATE"
    [] p = 5 -> ContainsKwSpaceKw(s, {"ALTER"}, {"TABLE"})
    [] p = 6 -> ContainsKwSpaceKw(s, {"CREATE"}, {"TABLE"})

\* the errors of a validation that name a denylist pattern
DangerCount(v) == Cardinality({ k \in 1..Len(v.errors) : v.errors[k].pattern # Null })

HasError(v, e) == \E k \in 1..Len(v.errors) : v.errors[k] = e

\* C2: validateQuery answers valid=false with the 'Only SELECT queries are
\* allowed' error for every text that does not begin with SELECT, and does not
\* add that error for a text that begins with SELECT
C2_SelectOnly ==
  gpc = "validated" =>
    IF BeginsWithSelect(sqlQuery)
    THEN ~HasError(validation, SelectError)
    ELSE validation.valid = FALSE /\ HasError(validation, SelectError)

C2_Witness ==
  /\ gpc = "validated"
  /\ sqlQuery = << "UPDATE", " ", "sales" >>
  /\ validation.valid = FALSE
  /\ validation.errors = << SelectError >>

\* C3: validateQuery answers valid=false for every text that matches a denylist
\* pattern anywhere, also when the text begins with SELECT, with one error per
\* matching pattern
C3_Denylist ==
  gpc = "validated" =>
    /\ \A p \in 1..6 :
         Denylisted(p, sqlQuery) =>
           /\ validation.valid = FALSE
           /\ Cardinality({ k \in 1..Len(validation.errors) :
                              validation.errors[k] = DangerError(p) }) = 1
    /\ DangerCount(validation) = Cardinality({ p \in 1..6 : Denylisted(p, sqlQuery) })

C3_Witness ==
  /\ gpc = "validated"
  /\ BeginsWithSelect(sqlQuery)
  /\ Denylisted(1, sqlQuery)
  /\ Denylisted(4, sqlQuery)
  /\ validation.valid = FALSE
  /\ DangerCount(validation) = 2

\* C4: an extracted table that is not in the schema adds a warning naming it and
\* never changes valid: a SELECT matching no denylist pattern is valid with no
\* errors whatever tables it names, and a text whose extracted tables are all in
\* the schema has no warnings
C4_WarningsOnly ==
  gpc = "validated" =>
    LET extracted == ExtractTables(sqlQuery, 1)
        known     == { schema.tables[k].name : k \in 1..Len(schema.tables) }
        unknown   == SelectSeq(extracted, LAMBDA t : t \notin known)
    IN  /\ validation.warnings = [k \in 1..Len(unknown) |-> TableWarning(unknown[k])]
        /\ (BeginsWithSelect(sqlQuery) /\ \A p \in 1..6 : ~Denylisted(p, sqlQuery))
             => (validation.valid = TRUE /\ validation.errors = << >>)
        /\ (\A k \in 1..Len(extracted) : extracted[k] \in known)
             => validation.warnings = << >>

C4_Witness ==
  /\ gpc = "validated"
  /\ validation.valid = TRUE
  /\ validation.errors = << >>
  /\ validation.warnings = << TableWarning(<< "ghost_table" >>) >>

(***************************************************************************)
(* Properties of the query executor                                        *)
(***************************************************************************)
\* the row ceiling in force for the call
CeilingInForce == IF maxRowsOpt = Undefined THEN 10000 ELSE maxRowsOpt.value

\* C7: executeQuery returns all rows unchanged when the driver returns at most
\* maxRows rows, and exactly the first maxRows rows in their original order,
\* without failing, when the driver returns more
C7_PrefixTruncation ==
  (epc = "executed" /\ driver.ok) =>
    /\ execResult.ok
    /\ IF Len(driver.rows) <= CeilingInForce
       THEN execResult.rows = driver.rows
       ELSE /\ Len(execResult.rows) = CeilingInForce
            /\ \A k \in 1..CeilingInForce : execResult.rows[k] = driver.rows[k]

C7_Witness ==
  /\ epc = "executed"
  /\ driver.ok
  /\ Len(driver.rows) = 3
  /\ maxRowsOpt = Given(2)
  /\ execResult.ok
  /\ execResult.rows = << driver.rows[1], driver.rows[2] >>

(***************************************************************************)
(* Properties of the schema cache                                          *)
(***************************************************************************)
\* caller c makes its call in this step
Calls(c) == cpc[c] = "idle" /\ cpc'[c] # "idle"

\* caller c's introspection finishes in this step
Finishes(c) == cpc[c] = "tables" /\ cpc'[c] = "returned"

\* C5: getCachedSchema(false) returns the stored snapshot, without invoking
\* getCompleteSchema, iff the cache is populated and younger than the TTL;
\* getCachedSchema(true) always invokes getCompleteSchema; a call that misses
\* stores the snapshot its introspection built and returns it; a snapshot
\* that is stored or was returned is never modified
C5_CacheHitRule ==
  [][ /\ \A c \in Callers :
           Calls(c) =>
             IF ~cforce'[c] /\ schemaCache # 0 /\ clock - schemaCacheTime < CACHE_DURATION
             THEN /\ cpc'[c] = "returned"
                  /\ cret'[c] = schemaCache
                  /\ introspections' = introspections
                  /\ schemaCache' = schemaCache
                  /\ schemaCacheTime' = schemaCacheTime
             ELSE /\ cpc'[c] = "listing"
                  /\ introspections' = introspections + 1
      /\ \A c \in Callers :
           Finishes(c) =>
             /\ cret'[c] = cobj[c]
             /\ schemaCache' = cobj[c]
             /\ schemaCacheTime' = cnow[c]
      /\ \A id \in 1..Len(schemaObjs) :
           (id = schemaCache \/ \E c \in Callers : cret[c] = id)
             => schemaObjs'[id] = schemaObjs[id]
    ]_vars

\* a call was answered from a cache entry one millisecond short of the TTL
C5_Witness ==
  \E c \in Callers :
    /\ cpc[c] = "returned"
    /\ ~cforce[c]
    /\ schemaCache # 0
    /\ cret[c] = schemaCache
    /\ cnow[c] - schemaCacheTime = CACHE_DURATION - 1
    /\ introspections = 1

\* C6: clearSchemaCache empties the snapshot and the timestamp whatever the
\* entry's age, and with no refresh in flight the first getCachedSchema(false)
\* after it invokes getCompleteSchema
C6_ClearUnconditional ==
  /\ [](sinceClear # "no" => schemaCache = 0 /\ schemaCacheTime = 0)
  /\ [][ \A c \in Callers :
           (sinceClear = "quiet" /\ Calls(c) /\ ~cforce'[c]) =>
             /\ cpc'[c] = "listing"
             /\ introspections' = introspections + 1
             /\ cret'[c] = 0
       ]_vars

\* the cache was cleared, with no refresh in flight, while the snapshot a
\* caller had just been given was younger than the TTL
C6_Witness ==
  /\ sinceClear = "quiet"
  /\ schemaCache = 0
  /\ \E c \in Callers :
       /\ cpc[c] = "returned"
       /\ cret[c] # 0
       /\ clock - cnow[c] < CACHE_DURATION

(***************************************************************************)
(* Properties of the request handler                                       *)
(***************************************************************************)
\* C1: the generated SQL reaches executeQuery only after validateQuery answered
\* valid=true for that text; when it answers valid=false the request ends with
\* a rejection carrying the guard's errors and executeQuery is not called
C1_GuardBeforeExecute ==
  /\ Len(executed) <= 1
  /\ \A k \in 1..Len(executed) :
       /\ gpc = "validated"
       /\ validation.valid
       /\ executed[k] = sqlQuery
       /\ BeginsWithSelect(executed[k])
       /\ \A p \in 1..6 : ~Denylisted(p, executed[k])
  /\ (gpc = "validated" /\ ~validation.valid) =>
       /\ executed = << >>
       /\ epc = "ready"
       /\ pc = "responded"
       /\ response.status = 400
       /\ ~response.success
       /\ response.errors = validation.errors
       /\ response.errors # << >>

\* a SELECT followed by DROP TABLE was rejected and never executed
C1_Witness ==
  /\ pc = "responded"
  /\ gpc = "validated"
  /\ sqlQuery[1] = "SELECT"
  /\ ~validation.valid
  /\ response.status = 400
  /\ response.errors = << DangerError(1) >>
  /\ executed = << >>

\* C8: when the executed query returns zero rows the answer is a success whose
\* chart spec has the placeholder mark 'text' and empty data.values, whatever
\* the spec of the generation service; that spec is not what is returned
C8_EmptyResultPlaceholder ==
  (pc = "responded" /\ epc = "executed" /\ execResult.ok /\ Len(execResult.rows) = 0) =>
    /\ response.status = 200
    /\ response.success
    /\ response.dataCount = 0
    /\ response.data = << >>
    /\ response.chart.spec.mark = MarkString("text")
    /\ response.chart.spec.hasData
    /\ response.chart.spec.values = << >>
    /\ response.vegaSpec \notin SpecRefs(heap, aiResponse.vegaSpec)
    /\ enhanced = 0

\* zero rows came back for a request whose generated spec has an object mark
C8_Witness ==
  /\ pc = "responded"
  /\ epc = "executed"
  /\ execResult.ok
  /\ execResult.rows = << >>
  /\ heap[aiResponse.vegaSpec].mark.kind = "object"
  /\ heap[heap[aiResponse.vegaSpec].mark.ref].type = "point"
  /\ response.success
  /\ response.chart.spec.mark.type = "text"

\* C9: enhanceVegaSpec leaves the spec it is given, its mark object included,
\* as it was, and the generation result held by the handler does not change
\* once it has been received
C9_InputNotMutated ==
  [][ /\ pc \in {"exec", "responded"} => aiResponse' = aiResponse
      /\ \A r \in SpecRefs(heap, aiResponse.vegaSpec) : heap'[r] = heap[r]
    ]_vars

\* a spec with an object mark whose tooltip is off was enhanced: the copy has
\* the tooltip on and the input still has it off
C9_Witness ==
  /\ pc = "responded"
  /\ enhanced # 0
  /\ heap[aiResponse.vegaSpec].mark.kind = "object"
  /\ heap[heap[aiResponse.vegaSpec].mark.ref].tooltip = "false"
  /\ heap[enhanced].mark.ref # heap[aiResponse.vegaSpec].mark.ref
  /\ heap[heap[enhanced].mark.ref].tooltip = "true"
  /\ heap[aiResponse.vegaSpec].values = << >>
  /\ heap[enhanced].values = normalizedData

\* C10: the chart spec answered for more than 1000 rows has the mark's tooltip
\* disabled and a sampling transform of 1000 appended, and the spec answered
\* for at most 1000 rows has no such transform
C10_LargeDatasetDegradation ==
  (pc = "responded" /\ response.success /\ response.dataCount > 0) =>
    IF response.dataCount > 1000
    THEN /\ response.chart.mark.tooltip = "false"
         /\ \E k \in 1..Len(response.chart.spec.transform) :
              response.chart.spec.transform[k] = [sample |-> 1000]
    ELSE response.chart.spec.transform = << >>

(***************************************************************************)
(* Properties of the widget save started by the handler                    *)
(***************************************************************************)
\* C11: the widget save is fire-and-forget.  From the moment saveWidget has
\* been called for a non-empty result the success response has been sent
\* already, and no later step, whether the save completes, is rejected or
\* stays pending, changes the response that was sent; a rejected save adds a
\* line to the error log and does nothing else.
C11_FireAndForget ==
  /\ [](wpc["w1"] # "idle" =>
         /\ pc = "responded"
         /\ response.status = 200
         /\ response.success
         /\ response.dataCount = Len(data))
  /\ [][wpc["w1"] # "idle" => response' = response /\ pc' = pc]_vars
  /\ [][wpc["w1"] # "failed" /\ wpc'["w1"] = "failed" =>
          /\ errorLog' = Append(errorLog, "Widget save failed:")
          /\ widgets' = widgets
          /\ response' = response]_vars

\* a save that was rejected after the chart had been answered
C11_Witness ==
  /\ wpc["w1"] = "failed"
  /\ errorLog # << >>
  /\ response.success
  /\ response.dataCount > 0

(***************************************************************************)
(* Properties of the handler's responses                                   *)
(***************************************************************************)
\* a failure response: status 500 with a hint and with neither rows nor a
\* chart spec
IsFailureResponse(r) ==
  /\ r.status = 500
  /\ ~r.success
  /\ r.hint # ""
  /\ r.data = << >>
  /\ r.dataCount = 0
  /\ r.vegaSpec = 0
  /\ r.chart = NoChart

\* no call of validateQuery, of executeQuery or of saveWidget has been made
NothingAfterGeneration ==
  /\ gpc = "ready"
  /\ epc = "ready"
  /\ executed = << >>
  /\ widgetSaves = << >>
  /\ wpc["w1"] = "idle"

\* C12: a request is answered exactly once.  The handler never sends a second
\* response and has sent one when it is finished; when schema retrieval, AI
\* generation or query execution fails, the one response is the failure
\* response (a hint, no rows, no chart spec) and no later step of the
\* pipeline has run; once schema retrieval or query execution has settled,
\* with a result or with a failure, the handler goes on to answer.
AnsweredOnce ==
  /\ responses \in { 0, 1 }
  /\ (pc = "responded") <=> (responses = 1)
  /\ cpc["req"] = "threw" =>
       /\ pc \in { "schema", "responded" }
       /\ pc = "responded" => IsFailureResponse(response)
       /\ parsedResponse = << >>
       /\ aiError = ""
       /\ NothingAfterGeneration
  /\ aiError # "" =>
       /\ pc = "responded"
       /\ IsFailureResponse(response)
       /\ response.error = aiError
       /\ NothingAfterGeneration
  /\ (epc = "executed" /\ ~execResult.ok) =>
       /\ pc = "responded"
       /\ IsFailureResponse(response)
       /\ Len(executed) = 1
       /\ normalizedData = << >>
       /\ enhanced = 0
       /\ widgetSaves = << >>
       /\ wpc["w1"] = "idle"

C12_SingleResponse ==
  /\ []AnsweredOnce
  /\ (pc = "schema") ~> (pc \in { "ai", "responded" })
  /\ (pc = "exec") ~> (pc = "responded")

\* a request whose query execution failed and that was answered once
C12_Witness ==
  /\ epc = "executed"
  /\ ~execResult.ok
  /\ responses = 1
  /\ response.status = 500

\* the hints that tell the user to change the query
QueryHints ==
  { "Query took too long. Try adding filters to reduce data size",
    "Check your database connection and query syntax" }

\* the hint that tells the user to rephrase the prompt
RephraseHint == "Try rephrasing your prompt or check the server logs for details"

\* C13: the hint follows the kind of the error.  A request whose query
\* execution failed with a DatabaseError is answered with a hint about the
\* query, and a request whose generation failed (service failure, unparseable
\* reply, structurally invalid reply) is answered with the rephrase hint.
C13_HintByErrorKind ==
  /\ (epc = "executed" /\ ~execResult.ok /\ pc = "responded") =>
       response.hint \in QueryHints
  /\ (aiError # "" /\ pc = "responded") => response.hint = RephraseHint

\* C14: a request that has reached the generation call is answered in the
\* end, also when the generation service never answers.
C14_EventualResponse == (pc = "ai") ~> (pc = "responded")

(***************************************************************************)
(* Properties of the validation results                                    *)
(***************************************************************************)
\* C15: every validation result has valid = false exactly when its list of
\* errors is not empty, whatever the input: the result of validateQuery for
\* every SQL text and schema, and the result of validateVegaSpec for every
\* chart spec it returns a result for.
C15_ValidIffNoErrors ==
  /\ gpc = "validated" => (validation.valid = FALSE <=> validation.errors # << >>)
  /\ (vpc = "validated" /\ ~vegaValidation.threw) =>
       (vegaValidation.valid = FALSE <=> vegaValidation.errors # << >>)

\* both validators have rejected their input, the chart spec for two reasons
C15_Witness ==
  /\ gpc = "validated"
  /\ ~validation.valid
  /\ vpc = "validated"
  /\ ~vegaValidation.threw
  /\ ~vegaValidation.valid
  /\ Len(vegaValidation.errors) > 1

\* C16: when validateQuery has accepted the generated SQL with warnings about
\* unknown tables, the handler still calls executeQuery with that SQL, and
\* the successful response of the request carries those warnings.
C16_WarningsAttached ==
  (gpc = "validated" /\ validation.valid /\ validation.warnings # << >>) =>
     /\ executed = << sqlQuery >>
     /\ (pc = "responded" /\ response.success) => response.warnings = validation.warnings

(***************************************************************************)
(* Properties of concurrent schema refreshes                               *)
(***************************************************************************)
\* the schema object id holds an entry for every table its introspection listed
Complete(objs, id) ==
  [k \in 1..Len(objs[id].tables) |-> objs[id].tables[k].name[1]] = objInfo[id].listed

\* the cache holds no snapshot, or one that is older than the TTL
EmptyOrExpired == schemaCache = 0 \/ clock - schemaCacheTime >= CACHE_DURATION

\* the callers whose introspection is in flight
Refreshing == { c \in Callers : cpc[c] \in { "listing", "tables" } }

\* C17: refreshes are not deduplicated.  A caller that calls getCachedSchema
\* while the cache is empty or expired and another caller's introspection is
\* still in flight starts an introspection of its own, so that N such callers
\* make N calls of getCompleteSchema; the introspections build separate
\* objects, and each caller whose introspection returns receives the object
\* it built, with an entry for every table that introspection listed.
C17_NoDeduplication ==
  /\ [][ \A c \in Callers :
           /\ (Calls(c) /\ EmptyOrExpired /\ Refreshing \ { c } # { }) =>
                /\ cpc'[c] = "listing"
                /\ introspections' = introspections + 1
                /\ Refreshing' = Refreshing \cup { c }
           /\ Finishes(c) =>
                /\ cret'[c] = cobj[c]
                /\ Complete(schemaObjs', cobj[c])
       ]_vars
  /\ [](Cardinality(Refreshing) <= introspections)
  /\ [](\A c \in Callers, o \in Callers :
          (c # o /\ cpc[c] = "tables" /\ cpc[o] = "tables") => cobj[c] # cobj[o])

\* two unforced calls missed and overlapped: c2 has received its complete
\* schema while c1, whose object is the older one, is still introspecting
C17_Witness ==
  /\ cpc["c1"] = "tables"
  /\ cpc["c2"] = "returned"
  /\ ~cforce["c1"]
  /\ ~cforce["c2"]
  /\ cobj["c1"] # 0
  /\ cobj["c1"] < cret["c2"]
  /\ cret["c2"] = cobj["c2"]
  /\ Complete(schemaObjs, cret["c2"])
  /\ Len(objInfo[cret["c2"]].listed) = 2
  /\ introspections = 2

\* C18: the cache is never seen half built.  In every state the cache is
\* either empty (no snapshot, no timestamp) or holds a snapshot that is
\* complete and that no introspection is still building, and the schema a
\* caller has received is complete; every step that writes the snapshot or
\* the timestamp either empties both or stores the object one finishing
\* refresh built together with the timestamp of that same refresh.
C18_CacheConsistent ==
  /\ [](/\ (schemaCache = 0) <=> (schemaCacheTime = 0)
        /\ schemaCache # 0 =>
             /\ schemaCache \in 1..Len(schemaObjs)
             /\ Complete(schemaObjs, schemaCache)
             /\ \A c \in Callers : cpc[c] = "tables" => cobj[c] # schemaCache
        /\ \A c \in Callers :
             cpc[c] = "returned" =>
               /\ cret[c] \in 1..Len(schemaObjs)
               /\ Complete(schemaObjs, cret[c]))
  /\ [][ (schemaCache' # schemaCache \/ schemaCacheTime' # schemaCacheTime) =>
           \/ schemaCache' = 0 /\ schemaCacheTime' = 0
           \/ \E c \in Callers :
                /\ Finishes(c)
                /\ schemaCache' = cobj[c]
                /\ schemaCacheTime' = cnow[c]
       ]_vars

\* the cache holds a finished two-table snapshot while another refresh has
\* built half of its own
C18_Witness ==
  /\ schemaCache # 0
  /\ Len(schemaObjs[schemaCache].tables) = 2
  /\ \E c \in Callers :
       /\ cpc[c] = "tables"
       /\ Len(objInfo[cobj[c]].listed) = 2
       /\ Len(schemaObjs[cobj[c]].tables) = 1

(***************************************************************************)
(* Properties of the rows of the result                                    *)
(***************************************************************************)
\* the strings of the rows whose trimmed form is not empty and reads as a
\* number, with that number
NumericTexts == { "10", "7", " 7 " }

NumericValue(x) == IF x = "10" THEN 10 ELSE 7

\* a driver value as the result is to show it
CoercedValue(v) ==
  IF v.t = "string" /\ v.s \in NumericTexts THEN Num(NumericValue(v.s)) ELSE v

CoercedRows(rows) ==
  [k \in 1..Len(rows) |-> [f \in DOMAIN rows[k] |-> CoercedValue(rows[k][f])]]

\* the rows injected into the chart spec are the coerced rows
ChartRowsCoerced ==
  (pc = "responded" /\ response.success /\ response.dataCount > 0) =>
     heap[response.vegaSpec].values = CoercedRows(execResult.rows)

\* C19: in the result of a request that returned rows, every string value
\* whose trimmed form is non-empty and numeric is a number and every other
\* value is as the driver returned it, both in the rows injected into the
\* chart spec and in the rows returned to the caller.
C19_NumericCoercion ==
  /\ ChartRowsCoerced
  /\ (pc = "responded" /\ response.success /\ response.dataCount > 0) =>
       response.data = CoercedRows(execResult.rows)

(***************************************************************************)
(* Properties of the generation step                                       *)
(***************************************************************************)
\* the required fields a parsed reply lacks
MissingFields(reply) ==
  { f \in { "sqlQuery", "vegaSpec", "analysis", "encoding", "$schema" } :
      \/ f = "sqlQuery" /\ reply.sqlQuery = << >>
      \/ f = "vegaSpec" /\ ~reply.hasVegaSpec
      \/ f = "analysis" /\ ~reply.hasAnalysis
      \/ f = "encoding" /\ reply.hasVegaSpec /\ ~reply.vegaSpec.hasEncoding
      \/ f = "$schema" /\ reply.hasVegaSpec /\ ~reply.vegaSpec.hasSchema }

\* the field an error message of the generation step names
NamedField(msg) ==
  CASE msg = "AI generation failed: AI response missing required field: SQL query (sqlQuery)"
         -> "sqlQuery"
    [] msg = "AI generation failed: AI response missing required field: Vega-Lite specification (vegaSpec)"
         -> "vegaSpec"
    [] msg = "AI generation failed: AI response missing required field: Analysis metadata (analysis)"
         -> "analysis"
    [] msg = "AI generation failed: Vega-Lite specification missing encoding field"
         -> "encoding"
    [] msg = "AI generation failed: Vega-Lite specification missing $schema field"
         -> "$schema"
    [] OTHER -> "none"

\* C20: generateChartWithAI fails with a generation error that names a missing
\* field whenever the parsed reply lacks sqlQuery, vegaSpec, analysis,
\* vegaSpec.encoding or vegaSpec.$schema, and fails with a generation error
\* when the reply does not parse or the service call fails; in each of these
\* cases the request is answered with that error and no SQL has been validated
\* or executed for it.
C20_GenerationFailure ==
  /\ (parsedResponse # << >> /\ MissingFields(parsedResponse[1]) # { }) =>
       /\ aiError # ""
       /\ NamedField(aiError) \in MissingFields(parsedResponse[1])
  /\ (pc = "responded" /\ cpc["req"] = "returned" /\ parsedResponse = << >>) =>
       aiError \in { "AI generation failed: " \o msg : msg \in AiErrors }
  /\ aiError # "" =>
       /\ pc = "responded"
       /\ response.status = 500
       /\ response.error = aiError
       /\ gpc = "ready"
       /\ epc = "ready"
       /\ executed = << >>

\* a reply without vegaSpec.$schema was refused before any SQL was looked at
C20_Witness ==
  /\ parsedResponse # << >>
  /\ MissingFields(parsedResponse[1]) = { "$schema" }
  /\ NamedField(aiError) = "$schema"
  /\ response.status = 500
  /\ gpc = "ready"
  /\ executed = << >>

(***************************************************************************)
(* Properties of the enhanced chart spec                                   *)
(***************************************************************************)
\* the mark of the spec at r as JSON shows it
MarkShape(h, r) ==
  IF h[r].mark.kind = "object"
  THEN [form |-> "object", type |-> h[h[r].mark.ref].type,
        tooltip |-> h[h[r].mark.ref].tooltip]
  ELSE [form |-> h[r].mark.kind, type |-> h[r].mark.type, tooltip |-> "unset"]

\* the spec at r without its width, height and config
Structure(h, r) ==
  [hasSchema |-> h[r].hasSchema, mark |-> MarkShape(h, r),
   hasEncoding |-> h[r].hasEncoding, hasData |-> h[r].hasData,
   values |-> h[r].values, autosize |-> h[r].autosize,
   transform |-> h[r].transform, title |-> h[r].title]

\* the enhanced spec with its data put back to the data of the input
StrippedStructure ==
  [Structure(heap, enhanced) EXCEPT
      !.hasData = heap[aiResponse.vegaSpec].hasData,
      !.values = heap[aiResponse.vegaSpec].values]

\* a request was answered with the enhanced form of a generated spec that
\* sets neither width nor height nor config and has a string or object mark
RoundTripCase ==
  /\ pc = "responded"
  /\ enhanced # 0
  /\ heap[aiResponse.vegaSpec].width = SizeUnset
  /\ heap[aiResponse.vegaSpec].height = SizeUnset
  /\ heap[aiResponse.vegaSpec].config = "undefined"
  /\ heap[aiResponse.vegaSpec].mark.kind \in { "string", "object" }

ReadableTexts == { "10", " 7 ", "7", "12px", "2024-01" }

ReadNumber(v) ==
  IF v.t = "number" THEN v.n
  ELSE IF v.s = "10" THEN 10
  ELSE IF v.s = "12px" THEN 12
  ELSE IF v.s = "2024-01" THEN 2024
  ELSE 7

\* the value is a number or a text a number can be read from
ParsesToNumber(v) == v.t = "number" \/ (v.t = "string" /\ v.s \in ReadableTexts)

\* the rows of the result whose value in the column parses to a number
ParsingRows(col) == { k \in DOMAIN chartRows : ParsesToNumber(chartRows[k][col]) }

\* the sum of the numbers read in rows lo..hi of the column
RECURSIVE SumOver(_, _, _)
SumOver(col, lo, hi) ==
  IF lo > hi THEN 0
  ELSE IF lo = hi
       THEN (IF ParsesToNumber(chartRows[lo][col]) THEN ReadNumber(chartRows[lo][col])
             ELSE 0)
  ELSE SumOver(col, lo, (lo + hi) \div 2) + SumOver(col, (lo + hi) \div 2 + 1, hi)

\* the statistics are those of the parsing rows of the column
StatisticsOf(st, col) ==
  LET rows == ParsingRows(col)
  IN  /\ st.count = Cardinality(rows)
      /\ st.sum = SumOver(col, 1, Len(chartRows))
      /\ \E k \in rows : st.min = ReadNumber(chartRows[k][col])
      /\ \A k \in rows : st.min <= ReadNumber(chartRows[k][col])
      /\ \E k \in rows : st.max = ReadNumber(chartRows[k][col])
      /\ \A k \in rows : st.max >= ReadNumber(chartRows[k][col])
      /\ st.avg.den # 0
      /\ st.avg.num * st.count = st.sum * st.avg.den

\* C22: once generateChartSummary has returned, totalRecords is the number of
\* rows; every column whose first-row value is a number or parses to one
\* (as parseFloat reads it) has statistics whose count is the number of rows
\* whose value parses, whose sum, min and max are taken over those rows and
\* whose avg is sum / count; every other column has no statistics.
C22_SummaryStatistics ==
  "summary" \in chartCalls =>
    /\ summary.totalRecords = Len(chartRows)
    /\ Len(chartRows) = 0 => ~summary.hasStatistics
    /\ Len(chartRows) > 0 =>
          \A col \in DOMAIN chartRows[1] :
            IF ParsesToNumber(chartRows[1][col])
            THEN /\ summary.hasStatistics
                 /\ col \in DOMAIN summary.statistics
                 /\ StatisticsOf(summary.statistics[col], col)
            ELSE col \notin DOMAIN summary.statistics

\* the summary of the values "10" and 20: min 10, max 20, sum 30, avg 15, count 2
C22_Witness ==
  /\ "summary" \in chartCalls
  /\ chartRows = << DriverRow(Str("a"), Str("10")), DriverRow(Str("b"), Num(20)) >>
  /\ summary.totalRecords = 2
  /\ DOMAIN summary.statistics = { "v" }
  /\ summary.statistics["v"].min = 10
  /\ summary.statistics["v"].max = 20
  /\ summary.statistics["v"].sum = 30
  /\ summary.statistics["v"].count = 2
  /\ summary.statistics["v"].avg.num = 15 * summary.statistics["v"].avg.den


(***************************************************************************)
(* C23: the alternative chart types                                        *)
(***************************************************************************)
\* column names and texts that look like dates or times
TimeLikeNames == { "order_date", "created_at_time", "Year", "weekday", "month" }

TimeLikeTexts == { "2024-01", "2024", "Monday" }

\* a time-like column is detected in the result
TimeLikeColumn ==
  /\ Len(chartRows) > 0
  /\ \E col \in DOMAIN chartRows[1] :
       \/ col \in TimeLikeNames
       \/ chartRows[1][col].t = "string" /\ chartRows[1][col].s \in TimeLikeTexts

\* the number of columns whose first-row value is numeric
NumericColumnCount ==
  IF Len(chartRows) = 0 THEN 0
  ELSE Cardinality({ col \in DOMAIN chartRows[1] : ParsesToNumber(chartRows[1][col]) })

Proposed(t) == \E k \in DOMAIN alternatives : alternatives[k].type = t

\* the three proposals are made exactly under their conditions
ProposalsByCondition ==
  /\ Proposed("line") <=> (TimeLikeColumn /\ chartAnalysis.chartType # "line")
  /\ Proposed("arc") <=> (Len(chartRows) <= 8 /\ chartAnalysis.chartType # "arc")
  /\ Proposed("point") <=> (NumericColumnCount >= 2 /\ chartAnalysis.chartType # "point")

\* no suggestion is the current chart type and each carries a reason
SuggestionsWellFormed ==
  \A k \in DOMAIN alternatives :
    /\ alternatives[k].type \in { "line", "arc", "point" }
    /\ alternatives[k].type # chartAnalysis.chartType
    /\ alternatives[k].reason # ""

\* C23 as stated: once suggestAlternativeCharts has returned, 'line', 'arc'
\* and 'point' are proposed exactly under their conditions, for every result
\* (a result with no rows included: its row count is at most 8).
C23_AlternativesAsStated ==
  "alternatives" \in chartCalls => ProposalsByCondition /\ SuggestionsWellFormed

\* C23: once suggestAlternativeCharts has returned for a result with at least
\* one row, 'line' is proposed iff a time-like column is detected and the
\* current type is not 'line', 'arc' iff there are at most 8 rows and the
\* current type is not 'arc', 'point' iff at least two columns are numeric and
\* the current type is not 'point'; for a result with no rows nothing is
\* proposed; the current type is never proposed, every suggestion carries a
\* reason, and the call changes neither the analysis nor any chart spec.
C23_Alternatives ==
  /\ []("alternatives" \in chartCalls =>
          /\ Len(chartRows) > 0 => ProposalsByCondition
          /\ Len(chartRows) = 0 => alternatives = << >>
          /\ SuggestionsWellFormed)
  /\ [][alternatives' # alternatives =>
          /\ chartAnalysis' = chartAnalysis \/ chartAnalysis' = aiResponse.analysis
          /\ aiResponse' = aiResponse
          /\ \A r \in DOMAIN heap : heap'[r] = heap[r] \/ r = enhanced']_vars

\* a result with a time-like column and two numeric columns, drawn as bars:
\* all three alternatives are proposed
C23_Witness ==
  /\ "alternatives" \in chartCalls
  /\ chartAnalysis.chartType = "bar"
  /\ Len(alternatives) = 3
  /\ Proposed("line") /\ Proposed("arc") /\ Proposed("point")


(***************************************************************************)
(* C24: the stored column type                                             *)
(***************************************************************************)
\* the normalized type of each raw catalog type: the vocabulary value of the
\* lower-cased type if it has one, else the type in upper case
NormalizedTypeOf(raw) ==
  CASE raw \in { "integer", "INTEGER" }        -> "INTEGER"
    [] raw \in { "Varchar", "character varying" } -> "STRING"
    [] raw = "timestamp without time zone"     -> "TIMESTAMP"
    [] raw = "boolean"                         -> "BOOLEAN"
    [] raw = "uuid"                            -> "UUID"
    [] raw = "tinyint"                         -> "TINYINT"
    [] raw = "USER-DEFINED"                    -> "USER-DEFINED"

ColumnProcessed == kpc \in { "stored", "threw" }

\* C24: for every supported dialect and raw type, discovery of a column does
\* not throw and stores a type that is present, non-empty and equal to the
\* normalized type of the raw type.
C24_NormalizedType ==
  ColumnProcessed =>
    /\ ~storedColumn.threw
    /\ storedColumn.hasType
    /\ storedColumn.type # ""
    /\ storedColumn.type = NormalizedTypeOf(catalogColumn.type)

(***************************************************************************)
(* C25: the stored column description                                      *)
(***************************************************************************)
NameEndsInId ==
  LET n == catalogColumn.name
  IN  Len(n) >= 3 /\ n[Len(n) - 2] = "_" /\ n[Len(n) - 1] = "i" /\ n[Len(n)] = "d"

NameHasFlagPrefix ==
  LET n == catalogColumn.name
  IN  \/ Len(n) >= 3 /\ n[1] = "i" /\ n[2] = "s" /\ n[3] = "_"
      \/ Len(n) >= 4 /\ n[1] = "h" /\ n[2] = "a" /\ n[3] = "s" /\ n[4] = "_"

\* the names of ColumnNames that match none of the patterns
PlainNames ==
  { << "t", "o", "t", "a", "l" >>, << "o", "r", "d", "e", "r", "_", "t", "o", "t", "a", "l" >>,
    << "c", "r", "e", "a", "t", "e", "d", "_", "o", "n" >> }

ForeignKeyLeads == { "Foreign key reference", "Foreign key to " }

BooleanFlagLeads == { "Boolean flag", "Boolean indicator", "Boolean: ", "Boolean flag: " }

NameInWords ==
  [i \in DOMAIN catalogColumn.name |->
     IF catalogColumn.name[i] = "_" THEN " " ELSE catalogColumn.name[i]]

\* C25: the description of a stored column is never empty; it is the catalog
\* comment when there is one; otherwise a name ending in '_id' is described
\* as a foreign-key reference, a name prefixed 'is_' or 'has_' as a boolean
\* flag, and a name matching no pattern by the name with its underscores
\* replaced by spaces.
C25_ColumnDescription ==
  kpc = "stored" =>
    LET d == storedColumn.description
    IN  /\ d.lead # "" \/ d.body # << >>
        /\ catalogColumn.comment # "" => d = Description(catalogColumn.comment, << >>, "")
        /\ catalogColumn.comment = "" =>
              /\ NameEndsInId => d.lead \in ForeignKeyLeads
              /\ NameHasFlagPrefix => d.lead \in BooleanFlagLeads
              /\ catalogColumn.name \in PlainNames => d.body = NameInWords


(***************************************************************************)
(* C26: no modifying statement passes the guard                            *)
(***************************************************************************)
\* the keywords of data- and schema-modifying statements, in the spellings
\* the texts use
ModifyingKeywords ==
  { "INSERT", "UPDATE", "DELETE", "DROP", "TRUNCATE", "ALTER", "CREATE",
    "insert", "update", "delete", "drop", "truncate", "alter", "create" }

\* the lexeme at k opens a statement: nothing but blanks precedes it, or the
\* last lexeme before it that is not a blank is a semicolon
OpensStatement(text, k) ==
  LET before == { j \in 1..(k - 1) : text[j] \notin { " ", "\n" } }
  IN  before = { } \/ text[CHOOSE j \in before : \A i \in before : i <= j] = ";"

HasModifyingStatement(text) ==
  \E k \in DOMAIN text : text[k] \in ModifyingKeywords /\ OpensStatement(text, k)

\* C26: a text validateQuery returned valid=true for holds no modifying
\* statement anywhere, a statement after a semicolon included, and no text
\* handed to executeQuery holds one.
C26_NoModifyingStatement ==
  /\ (gpc = "validated" /\ validation.valid) => ~HasModifyingStatement(sqlQuery)
  /\ \A k \in DOMAIN executed : ~HasModifyingStatement(executed[k])


(***************************************************************************)
(* C27: invalidation and a refresh in flight                               *)
(***************************************************************************)
\* caller c's call getCachedSchema(false) returns from the cache in this step
ServedFromCache(c) == cpc[c] = "idle" /\ cpc'[c] = "returned" /\ ~cforce'[c]

\* C27: no call getCachedSchema(false) returns from the cache a snapshot that
\* was stored by an introspection already in flight when clearSchemaCache was
\* called.
C27_InvalidationNotUndone ==
  [][\A c \in AllCallers : ServedFromCache(c) => ~staleCache]_vars

(***************************************************************************)
(* C28: a failed refresh                                                   *)
(***************************************************************************)
\* caller c's call getCachedSchema rejects in this step
RefreshFails(c) == cpc[c] \in {"listing", "tables"} /\ cpc'[c] = "threw"

\* caller c calls getCachedSchema(false) in this step
CallsUnforced(c) == cpc[c] = "idle" /\ cpc'[c] # "idle" /\ ~cforce'[c]

\* C28: when getCompleteSchema throws during getCachedSchema, the call
\* rejects without a value and the cached snapshot and its timestamp keep
\* their values; a cached snapshot younger than CACHE_DURATION is what a
\* call getCachedSchema(false) returns.
C28_FailedRefreshKeepsCache ==
  [][\A c \in AllCallers :
       /\ RefreshFails(c) =>
             /\ schemaCache' = schemaCache
             /\ schemaCacheTime' = schemaCacheTime
             /\ cret'[c] = 0
       /\ (CallsUnforced(c) /\ schemaCache # 0 /\ schemaCache' = schemaCache
            /\ clock - schemaCacheTime < CACHE_DURATION) =>
             /\ cpc'[c] = "returned"
             /\ cret'[c] = schemaCache]_vars

\* a forced refresh has failed while a snapshot younger than CACHE_DURATION is
\* cached, and a later call getCachedSchema(false) was served that snapshot
C28_Witness ==
  \E c, d \in Callers :
    /\ cpc[c] = "threw" /\ cforce[c]
    /\ schemaCache # 0 /\ clock - schemaCacheTime < CACHE_DURATION
    /\ cpc[d] = "returned" /\ ~cforce[d] /\ cobj[d] = 0 /\ cret[d] = schemaCache
    /\ cnow[d] > cnow[c]


(***************************************************************************)
(* C29: the most recent widget                                             *)
(***************************************************************************)
AllSavesCompleted == \A w \in Savers : wpc[w] \in { "idle", "saved", "failed" }

FlaggedWidgets == { k \in DOMAIN widgets : widgets[k].isLastWidget }

\* C29: once every call of saveWidget has completed, at most one widget has
\* isLastWidget = true, it is the widget created last, and a call of
\* getLastWidget made then returns it.
C29_SingleLastWidget ==
  /\ [](AllSavesCompleted =>
          /\ Cardinality(FlaggedWidgets) <= 1
          /\ FlaggedWidgets \subseteq { Len(widgets) })
  /\ [][(AllSavesCompleted /\ lastWidget' # lastWidget /\ FlaggedWidgets # { }) =>
          lastWidget'.row = Len(widgets)]_vars


(***************************************************************************)
(* C30: retry and the settled state of the hook                            *)
(***************************************************************************)
RejectedCalls == { j \in DOMAIN settled : hcalls[settled[j]].status = "rejected" }

\* the prompt of the call that failed last
LastFailedPrompt ==
  hcalls[settled[CHOOSE j \in RejectedCalls : \A i \in RejectedCalls : i <= j]].prompt

\* C30: when retry() is called while an error is set, generateChart is called
\* again with the prompt of the call that failed; and when a call of
\* generateChart settles, isLoading is false and exactly one of chartData and
\* error is set.
C30_RetryAndSettle ==
  [][/\ (retries' # retries /\ error # << >>) =>
          /\ Len(hcalls') = Len(hcalls) + 1
          /\ hcalls'[Len(hcalls')].prompt = LastFailedPrompt
     /\ settled' # settled =>
          /\ isLoading' = FALSE
          /\ (chartData' # << >>) # (error' # << >>)]_vars

=============================================================================
